---- MODULE Spec2Model ----
(***************************************************************************)
(* A model of the JSON engine of src/Json.h: the tokenizer (JsonLexer),    *)
(* the recursive-descent parser (JsonParser), the value model (Json) and   *)
(* the printer (JsonPrinter).                                              *)
(*                                                                         *)
(* A text is a sequence of bytes, each written as a string.  The ASCII     *)
(* bytes are their own characters, the control characters have symbolic    *)
(* names (LF, CR, ...); C3 A9 is the two-byte UTF-8 sequence of one code    *)
(* point, and FF is a byte no UTF-8 sequence holds.                        *)
(***************************************************************************)
EXTENDS Integers, Sequences, FiniteSets, TLC

VARIABLES v, indent, dumped, text, typed, parsed, tok, redumped, res, nat

vars == <<v, indent, dumped, text, typed, parsed, tok, redumped, res, nat>>

(***************************************************************************)
(* Characters                                                              *)
(***************************************************************************)
NUL == "<NUL>"
LF == "<LF>"
CR == "<CR>"
TAB == "<TAB>"
VT == "<VT>"
FF == "<FF>"
BS == "<BS>"
QUOTE == "<QUOTE>"
BACKSLASH == "<BACKSLASH>"
SP == " "

\* UTF-8: a lead byte of a two-byte sequence, a continuation byte, the code
\* point the two encode, and a byte that is never valid
LeadByte == "<C3>"
ContByte == "<A9>"
EAcute == "<U+00E9>"
BadByte == "<FF>"

\* utf8::next(it, end) at offset i of chars: the code point and the offset
\* after it, or the exception thrown
Utf8Next(chars, i) ==
    IF i > Len(chars) THEN [err |-> "utf8::not_enough_room"]
    ELSE IF chars[i] \in {ContByte, BadByte} THEN [err |-> "utf8::invalid_utf8"]
    ELSE IF chars[i] # LeadByte THEN [err |-> "none", cp |-> chars[i], next |-> i + 1]
    ELSE IF i + 1 > Len(chars) THEN [err |-> "utf8::not_enough_room"]
    ELSE IF chars[i + 1] # ContByte THEN [err |-> "utf8::invalid_utf8"]
    ELSE [err |-> "none", cp |-> EAcute, next |-> i + 2]

\* utf8::append(cp, out): the bytes of a code point
Utf8Append(cp) == IF cp = EAcute THEN <<LeadByte, ContByte>> ELSE <<cp>>

DigitChars == <<"0", "1", "2", "3", "4", "5", "6", "7", "8", "9">>

IsDigit(c) == \E i \in 1..10 : DigitChars[i] = c

DigitVal(c) == (CHOOSE i \in 1..10 : DigitChars[i] = c) - 1

DigitChar(d) == DigitChars[d + 1]

Contains(s, c) == \E i \in 1..Len(s) : s[i] = c

\* the elements of s from index i to its end
Drop(s, i) == SubSeq(s, i, Len(s))

Zeros(n) == [i \in 1..n |-> "0"]

Spaces(n) == [i \in 1..n |-> SP]

(***************************************************************************)
(* int64_t: sign and magnitude, the magnitude as four 16-bit limbs, most   *)
(* significant first.  Zero has neg = FALSE.                               *)
(***************************************************************************)
LimbBase == 2^16

MagZero == <<0, 0, 0, 0>>

\* |INT64_MAX| = 2^63 - 1 and |INT64_MIN| = 2^63
MagMax == <<32767, 65535, 65535, 65535>>
MagMin == <<32768, 0, 0, 0>>

I64(n) ==
    LET a == IF n < 0 THEN -n ELSE n
    IN  [neg |-> n < 0, mag |-> <<0, 0, a \div LimbBase, a % LimbBase>>]

INT64_MAX == [neg |-> FALSE, mag |-> MagMax]
INT64_MIN == [neg |-> TRUE, mag |-> MagMin]

\* m1 <= m2 on magnitudes
MagLeq(m1, m2) ==
    \/ m1 = m2
    \/ \E i \in 1..4 : /\ m1[i] < m2[i]
                       /\ \A j \in 1..(i - 1) : m1[j] = m2[j]

\* m * 10 + d, with the carry out of the top limb
MagMulAdd10(m, d) ==
    LET t4 == m[4] * 10 + d
        t3 == m[3] * 10 + (t4 \div LimbBase)
        t2 == m[2] * 10 + (t3 \div LimbBase)
        t1 == m[1] * 10 + (t2 \div LimbBase)
    IN  [mag |-> <<t1 % LimbBase, t2 % LimbBase, t3 % LimbBase, t4 % LimbBase>>,
         carry |-> t1 \div LimbBase]

\* m divided by 10: quotient and remainder
MagDivMod10(m) ==
    LET c1 == m[1]
        c2 == (c1 % 10) * LimbBase + m[2]
        c3 == (c2 % 10) * LimbBase + m[3]
        c4 == (c3 % 10) * LimbBase + m[4]
    IN  [quot |-> <<c1 \div 10, c2 \div 10, c3 \div 10, c4 \div 10>>,
         rem |-> c4 % 10]

RECURSIVE MagDigits(_)
\* the decimal digits of a magnitude, none for zero
MagDigits(m) ==
    IF m = MagZero THEN <<>>
    ELSE LET qr == MagDivMod10(m)
         IN  Append(MagDigits(qr.quot), DigitChar(qr.rem))

\* operator<<(std::ostream&, int64_t): decimal, '-' for negatives
IntegerToChars(n) ==
    IF n.mag = MagZero THEN <<"0">>
    ELSE (IF n.neg THEN <<"-">> ELSE <<>>) \o MagDigits(n.mag)

\* the number of leading digits of s
RECURSIVE DigitRun(_)
DigitRun(s) ==
    IF s # <<>> /\ IsDigit(Head(s)) THEN 1 + DigitRun(Tail(s)) ELSE 0

RECURSIVE AccumulateDigits(_, _, _)
\* the value of the digit string s added to acc*10^Len(s); over is sticky
AccumulateDigits(s, acc, over) ==
    IF s = <<>> THEN [mag |-> acc, over |-> over]
    ELSE LET r == MagMulAdd10(acc, DigitVal(Head(s)))
         IN  AccumulateDigits(Tail(s), r.mag, over \/ r.carry # 0)

\* std::from_chars(first, last, int64_t&): an optional '-', then digits; no
\* digit is invalid_argument; a value that does not fit is
\* result_out_of_range, with ptr after the last digit.
\* FromCharsInt64 with the positive limit applied to both signs
FromCharsInt64Symmetric(s) ==
    LET neg == s # <<>> /\ Head(s) = "-"
        body == IF neg THEN Tail(s) ELSE s
        n == DigitRun(body)
        a == AccumulateDigits(SubSeq(body, 1, n), MagZero, FALSE)
    IN  IF n = 0 THEN [ec |-> "invalid_argument"]
        ELSE IF a.over \/ ~MagLeq(a.mag, MagMax) THEN [ec |-> "result_out_of_range"]
        ELSE [ec |-> "ok",
              len |-> n + (IF neg THEN 1 ELSE 0),
              value |-> [neg |-> neg /\ a.mag # MagZero, mag |-> a.mag]]

FromCharsInt64(s) ==
    LET neg == s # <<>> /\ Head(s) = "-"
        body == IF neg THEN Tail(s) ELSE s
        n == DigitRun(body)
        a == AccumulateDigits(SubSeq(body, 1, n), MagZero, FALSE)
        fits == ~a.over /\ MagLeq(a.mag, IF neg THEN MagMin ELSE MagMax)
    IN  IF n = 0 THEN [ec |-> "invalid_argument"]
        ELSE IF ~fits THEN [ec |-> "result_out_of_range"]
        ELSE [ec |-> "ok",
              len |-> n + (IF neg THEN 1 ELSE 0),
              value |-> [neg |-> neg /\ a.mag # MagZero, mag |-> a.mag]]

(***************************************************************************)
(* double: a finite double is written by its shortest round-tripping       *)
(* decimal, digs[1].digs[2..] * 10^exp, digs without leading or trailing   *)
(* zeros (zero is <<"0">>, exp 0).  This names the double exactly; a       *)
(* decimal text of at most 15 significant digits reads as the double whose *)
(* shortest decimal is that text, normalised.                              *)
(***************************************************************************)
Finite(neg, digs, exp) == [cls |-> "finite", neg |-> neg, digs |-> digs, exp |-> exp]

Infinity(neg) == [cls |-> "inf", neg |-> neg, digs |-> <<>>, exp |-> 0]

NaN == [cls |-> "nan", neg |-> FALSE, digs |-> <<>>, exp |-> 0]

RECURSIVE NatDigits(_)
NatDigits(n) ==
    IF n < 10 THEN <<DigitChar(n)>>
    ELSE Append(NatDigits(n \div 10), DigitChar(n % 10))

RECURSIVE NatVal(_)
NatVal(s) ==
    IF s = <<>> THEN 0
    ELSE NatVal(SubSeq(s, 1, Len(s) - 1)) * 10 + DigitVal(s[Len(s)])

RECURSIVE LeadingZeros(_)
LeadingZeros(s) ==
    IF s # <<>> /\ Head(s) = "0" THEN 1 + LeadingZeros(Tail(s)) ELSE 0

RECURSIVE StripTrailingZeros(_)
StripTrailingZeros(s) ==
    IF s # <<>> /\ s[Len(s)] = "0"
    THEN StripTrailingZeros(SubSeq(s, 1, Len(s) - 1))
    ELSE s

\* the double nearest to (-1)^neg * ip.fp * 10^e
DecimalToDouble(neg, ip, fp, e) ==
    LET all == ip \o fp
        lz == LeadingZeros(all)
        digs == StripTrailingZeros(Drop(all, lz + 1))
    IN  IF digs = <<>> THEN Finite(neg, <<"0">>, 0)
        ELSE Finite(neg, digs, Len(ip) - 1 - lz + e)

\* the exponent field of the scientific format: a sign and at least two digits
ExponentChars(x) ==
    LET a == IF x < 0 THEN -x ELSE x
    IN  <<"e", IF x < 0 THEN "-" ELSE "+">>
        \o (IF a < 10 THEN <<"0">> ELSE <<>>) \o NatDigits(a)

ToCharsFixed(f) ==
    LET k == Len(f.digs)
        x == f.exp
    IN  IF x >= k - 1 THEN f.digs \o Zeros(x - (k - 1))
        ELSE IF x >= 0 THEN SubSeq(f.digs, 1, x + 1) \o <<".">> \o Drop(f.digs, x + 2)
        ELSE <<"0", ".">> \o Zeros(-x - 1) \o f.digs

ToCharsScientific(f) ==
    <<Head(f.digs)>>
    \o (IF Len(f.digs) > 1 THEN <<".">> \o Tail(f.digs) ELSE <<>>)
    \o ExponentChars(f.exp)

\* std::to_chars(first, last, double, chars_format::general): the shortest
\* digits, in fixed notation when the scientific exponent X has
\* -4 <= X < 6 (printf's %g rule with P = 6), in scientific otherwise.
ToCharsGeneral(f) ==
    (IF f.neg THEN <<"-">> ELSE <<>>)
    \o (IF f.cls = "inf" THEN <<"i", "n", "f">>
        ELSE IF f.cls = "nan" THEN <<"n", "a", "n">>
        ELSE IF -4 <= f.exp /\ f.exp < 6 THEN ToCharsFixed(f)
        ELSE ToCharsScientific(f))

Lower(c) ==
    CASE c = "I" -> "i" [] c = "N" -> "n" [] c = "F" -> "f" [] c = "A" -> "a"
      [] c = "T" -> "t" [] c = "Y" -> "y" [] OTHER -> c

\* whether s starts with the letters of word, in either case
StartsWithNoCase(s, word) ==
    /\ Len(s) >= Len(word)
    /\ \A i \in 1..Len(word) : Lower(s[i]) = word[i]

\* std::from_chars(first, last, double&), chars_format::general: an optional
\* '-' (never '+'), then inf, infinity or nan, or digits with an optional
\* '.', at least one digit in all; an exponent is taken only when e or E is
\* followed by an optional sign and at least one digit.  No match is
\* invalid_argument; a magnitude outside the doubles is result_out_of_range.
FromCharsDouble(s) ==
    LET neg == s # <<>> /\ Head(s) = "-"
        sl == IF neg THEN 1 ELSE 0
        body == IF neg THEN Tail(s) ELSE s
        ipn == DigitRun(body)
        hasDot == Len(body) > ipn /\ body[ipn + 1] = "."
        fpn == IF hasDot THEN DigitRun(Drop(body, ipn + 2)) ELSE 0
        mlen == ipn + (IF hasDot THEN 1 + fpn ELSE 0)
        rest == Drop(body, mlen + 1)
        hasE == rest # <<>> /\ Head(rest) \in {"e", "E"}
        hasSign == hasE /\ Len(rest) >= 2 /\ rest[2] \in {"+", "-"}
        eoff == IF hasSign THEN 2 ELSE 1
        edn == IF hasE THEN DigitRun(Drop(rest, eoff + 1)) ELSE 0
        elen == IF edn > 0 THEN eoff + edn ELSE 0
        eabs == NatVal(SubSeq(rest, eoff + 1, eoff + edn))
        e == IF hasSign /\ rest[2] = "-" THEN -eabs ELSE eabs
        d == DecimalToDouble(neg, SubSeq(body, 1, ipn),
                             SubSeq(body, ipn + 2, ipn + 1 + fpn), e)
    IN  IF StartsWithNoCase(body, <<"i", "n", "f", "i", "n", "i", "t", "y">>)
        THEN [ec |-> "ok", len |-> sl + 8, value |-> Infinity(neg)]
        ELSE IF StartsWithNoCase(body, <<"i", "n", "f">>)
        THEN [ec |-> "ok", len |-> sl + 3, value |-> Infinity(neg)]
        ELSE IF StartsWithNoCase(body, <<"n", "a", "n">>)
        THEN [ec |-> "ok", len |-> sl + 3, value |-> NaN]
        ELSE IF ipn + fpn = 0 THEN [ec |-> "invalid_argument"]
        ELSE IF d.digs # <<"0">> /\ (d.exp > 308 \/ d.exp < -324)
        THEN [ec |-> "result_out_of_range"]
        ELSE [ec |-> "ok", len |-> sl + mlen + elen, value |-> d]

(***************************************************************************)
(* JsonLexer.  pos and next are 1-based offsets into chars; chars.end() is *)
(* Len(chars) + 1.  An operation that throws yields [err |-> message]; an  *)
(* exception of utf8::next inside SkipChar is kept in the lexer's fail     *)
(* field and thrown by the operation that called SkipChar.                 *)
(***************************************************************************)
TabLength == 4

Throw(msg) == [err |-> msg]

Threw(r) == r.err # "none"

EndOf(lx) == Len(lx.chars) + 1

IsEndOfFile(lx) == lx.pos = EndOf(lx)

Token(type, pos, data) == [type |-> type, pos |-> pos, data |-> data]

Failed(lx) == lx.fail # "none"

\* the lexer with its cursor at offset p and the code point d decoded there
Decoded(lx, p, d) ==
    IF Threw(d) THEN [lx EXCEPT !.fail = d.err]
    ELSE [lx EXCEPT !.pos = p, !.value = d.cp, !.next = d.next]

\* JsonLexer::JsonLexer(text): utf8::next on an empty range throws
\* utf8::not_enough_room, so no lexer is made from the empty text.
JsonLexer(t) ==
    IF Threw(Utf8Next(t, 1)) THEN Throw(Utf8Next(t, 1).err)
    ELSE [err |-> "none",
          lx |-> [chars |-> t, pos |-> 1, next |-> Utf8Next(t, 1).next,
                  value |-> Utf8Next(t, 1).cp, line |-> 0, column |-> 0,
                  fail |-> "none"]]

SkipChar(lx) ==
    IF Failed(lx) THEN lx
    ELSE IF lx.next # EndOf(lx)
    THEN Decoded(lx, lx.next, Utf8Next(lx.chars, lx.next))
    ELSE [lx EXCEPT !.pos = lx.next, !.value = NUL]

\* SkipChars that leaves the cursor where it is
SkipCharsStuck(lx, count) == lx

\* count is a number of ASCII characters already matched at the cursor, so
\* utf8::advance moves the cursor count bytes
SkipChars(lx, count) ==
    IF Failed(lx) THEN lx
    ELSE IF lx.pos + count # EndOf(lx)
    THEN Decoded(lx, lx.pos + count, Utf8Next(lx.chars, lx.pos + count))
    ELSE [lx EXCEPT !.pos = lx.pos + count, !.value = NUL, !.next = lx.pos + count]

\* SkipWhitespace that counts a column at the end of the text as well
SkipWhitespaceCounting(lx) ==
    IF Failed(lx) THEN lx ELSE [lx EXCEPT !.column = lx.column + 1]

RECURSIVE SkipWhitespace(_)
SkipWhitespace(lx) ==
    IF Failed(lx) \/ IsEndOfFile(lx) THEN lx
    ELSE IF lx.value = SP
    THEN SkipWhitespace(SkipChar([lx EXCEPT !.column = lx.column + 1]))
    ELSE IF lx.value = TAB
    THEN SkipWhitespace(SkipChar([lx EXCEPT !.column = lx.column + TabLength]))
    ELSE IF lx.value = LF
    THEN SkipWhitespace(SkipChar([lx EXCEPT !.line = lx.line + 1, !.column = 0]))
    ELSE IF lx.value \in {VT, FF, CR}
    THEN SkipWhitespace(SkipChar(lx))
    ELSE lx

\* a token and the lexer after it, unless reading past it threw
Emit(type, pos, data, lx) ==
    IF Failed(lx) THEN Throw(lx.fail)
    ELSE [err |-> "none", tok |-> Token(type, pos, data), lx |-> lx]

IsHexDigit(c) ==
    IsDigit(c) \/ c \in {"a", "b", "c", "d", "e", "f", "A", "B", "C", "D", "E", "F"}

\* the code point strtoul reads from four hex digits, for the code points
\* the model's texts use; any other is one placeholder code point
UnicodeChar(hex) ==
    CASE hex = <<"0", "0", "6", "1">> -> "a"
      [] hex = <<"0", "0", "3", "1">> -> "1"
      [] hex = <<"0", "0", "2", "2">> -> QUOTE
      [] hex \in {<<"0", "0", "0", "a">>, <<"0", "0", "0", "A">>} -> LF
      [] OTHER -> "<U+>"

\* the \uXXXX branch: l3 is the lexer at the first of the four characters;
\* the loop checks each with isxdigit and skips it, so an undecodable byte
\* among them throws from SkipChar before isxdigit sees it
RECURSIVE HexLoop(_, _)
HexLoop(lx, i) ==
    IF Failed(lx) THEN lx
    ELSE IF i = 4 THEN lx
    ELSE IF ~IsHexDigit(lx.value) THEN [lx EXCEPT !.fail = "invalid unicode escape sequence"]
    ELSE HexLoop(SkipChar(lx), i + 1)

RECURSIVE StringLoop(_, _, _)

\* the escape branch of GetStringToken: l2 is the lexer at the character
\* after the backslash, l3 the lexer after that character
StringEscape(l2, l3, str, start) ==
    IF Failed(l2) THEN Throw(l2.fail)
    ELSE IF IsEndOfFile(l2) THEN Throw("unexpected end of input")
    ELSE IF l2.value = QUOTE THEN StringLoop(l3, Append(str, QUOTE), start)
    ELSE IF l2.value = BACKSLASH THEN StringLoop(l3, Append(str, BACKSLASH), start)
    ELSE IF l2.value = "r" THEN StringLoop(l3, Append(str, CR), start)
    ELSE IF l2.value = "n" THEN StringLoop(l3, Append(str, LF), start)
    ELSE IF l2.value = "t" THEN StringLoop(l3, Append(str, TAB), start)
    ELSE IF l2.value = "b" THEN StringLoop(l3, Append(str, BS), start)
    ELSE IF l2.value = "f" THEN StringLoop(l3, Append(str, FF), start)
    ELSE IF l2.value # "u" THEN StringLoop(l3, str \o Utf8Append(l2.value), start)
    ELSE IF Failed(l3) THEN Throw(l3.fail)
    ELSE IF EndOf(l3) - l3.pos < 4 THEN Throw("unexpected end of input")
    ELSE StringLoop(HexLoop(l3, 0),
                    Append(str, UnicodeChar(SubSeq(l3.chars, l3.pos, l3.pos + 3))),
                    start)

\* the while loop of GetStringToken
StringLoop(lx, str, start) ==
    IF Failed(lx) THEN Throw(lx.fail)
    ELSE IF IsEndOfFile(lx) THEN Throw("unexpected end of input")
    ELSE IF lx.value = QUOTE THEN Emit("String", start, str, SkipChar(lx))
    ELSE IF lx.value = BACKSLASH
    THEN StringEscape(SkipChar(lx), SkipChar(SkipChar(lx)), str, start)
    ELSE StringLoop(SkipChar(lx), str \o Utf8Append(lx.value), start)

GetStringToken(lx) == StringLoop(SkipChar(lx), <<>>, lx.pos)

\* GetNumberToken after its two from_chars calls: ret reads a double, ret2
\* an int64_t, both from the characters at the cursor to the end of the text
NumberToken(lx, src, ret, ret2) ==
    IF ret.ec # "ok" THEN Throw("invalid number")
    ELSE IF Failed(SkipChars(lx, ret.len)) THEN Throw(SkipChars(lx, ret.len).fail)
    ELSE IF Contains(SubSeq(src, 1, ret.len), ".")
    THEN Emit("Float", lx.pos, ret.value, SkipChars(lx, ret.len))
    ELSE IF ret2.ec # "ok" THEN Throw("invalid number")
    ELSE Emit("Integer", lx.pos, ret2.value, SkipChars(lx, ret.len))

GetNumberToken(lx) ==
    NumberToken(lx, Drop(lx.chars, lx.pos),
                FromCharsDouble(Drop(lx.chars, lx.pos)),
                FromCharsInt64(Drop(lx.chars, lx.pos)))

\* std::equal(p, p + Len(word), word) on the characters at the cursor
LiteralAt(lx, word) ==
    /\ lx.pos + Len(word) - 1 <= Len(lx.chars)
    /\ SubSeq(lx.chars, lx.pos, lx.pos + Len(word) - 1) = word

GetBooleanToken(lx) ==
    IF LiteralAt(lx, <<"t", "r", "u", "e">>)
    THEN Emit("Boolean", lx.pos, TRUE, SkipChars(lx, 4))
    ELSE IF LiteralAt(lx, <<"f", "a", "l", "s", "e">>)
    THEN Emit("Boolean", lx.pos, FALSE, SkipChars(lx, 5))
    ELSE Throw("expected boolean literal")

GetNullToken(lx) ==
    IF LiteralAt(lx, <<"n", "u", "l", "l">>)
    THEN Emit("Null", lx.pos, "nullptr", SkipChars(lx, 4))
    ELSE Throw("expected null literal")

Punctuation(lx, type) == Emit(type, SkipChar(lx).pos, lx.value, SkipChar(lx))

GetNextToken(lx0) ==
    LET lx == SkipWhitespace(lx0)
    IN  IF Failed(lx) THEN Throw(lx.fail)
        ELSE IF IsEndOfFile(lx)
        THEN [err |-> "none", tok |-> Token("EndOfFile", lx.pos, "<EOF>"), lx |-> lx]
        ELSE IF lx.value = "{" THEN Punctuation(lx, "ObjectStart")
        ELSE IF lx.value = "}" THEN Punctuation(lx, "ObjectEnd")
        ELSE IF lx.value = "[" THEN Punctuation(lx, "ArrayStart")
        ELSE IF lx.value = "]" THEN Punctuation(lx, "ArrayEnd")
        ELSE IF lx.value = ":" THEN Punctuation(lx, "Colon")
        ELSE IF lx.value = "," THEN Punctuation(lx, "Comma")
        ELSE IF lx.value = QUOTE THEN GetStringToken(lx)
        ELSE IF IsDigit(lx.value) \/ lx.value = "-" \/ lx.value = "+"
        THEN GetNumberToken(lx)
        ELSE IF lx.value = "t" \/ lx.value = "f" THEN GetBooleanToken(lx)
        ELSE IF lx.value = "n" THEN GetNullToken(lx)
        ELSE Throw("found unexpected input")

RECURSIVE TokenizeLoop(_, _)

\* tokens.push_back(lexer.GetNextToken()), r being what GetNextToken did,
\* and the test of the do-while loop
TokenizeStep(r, tokens) ==
    IF Threw(r) THEN r
    ELSE IF IsEndOfFile(r.lx) THEN [err |-> "none", tokens |-> Append(tokens, r.tok)]
    ELSE TokenizeLoop(r.lx, Append(tokens, r.tok))

\* the do-while loop of Tokenize
TokenizeLoop(lx, tokens) == TokenizeStep(GetNextToken(lx), tokens)

\* JsonLexer::Tokenize(text)
Tokenize(t) ==
    IF Threw(JsonLexer(t)) THEN JsonLexer(t) ELSE TokenizeLoop(JsonLexer(t).lx, <<>>)

(***************************************************************************)
(* Json: the tagged union.  An Object is the sequence of its entries in    *)
(* the order the unordered_map iterates them, keys unique.                 *)
(***************************************************************************)
JNull == [type |-> "Null"]
JInteger(n) == [type |-> "Integer", data |-> n]
JFloat(f) == [type |-> "Float", data |-> f]
JBoolean(b) == [type |-> "Boolean", data |-> b]
JString(s) == [type |-> "String", data |-> s]
JArray(elems) == [type |-> "Array", data |-> elems]
JObject(entries) == [type |-> "Object", data |-> entries]

Keys(entries) == {entries[i].key : i \in 1..Len(entries)}

Lookup(entries, key) ==
    entries[CHOOSE i \in 1..Len(entries) : entries[i].key = key].val

\* Where a new entry lands in the iteration order of an unordered_map is
\* unspecified; the model lets it land first or last.
HashOrders == {"front", "back"}

\* ObjectSet that gives every write a new entry
ObjectSetAppending(entries, key, val, ord) ==
    IF ord = "front" THEN <<[key |-> key, val |-> val]>> \o entries
    ELSE Append(entries, [key |-> key, val |-> val])

\* ObjectType::operator[](key) = val: the entry of an existing key is
\* overwritten in place, a new key gets a new entry
ObjectSet(entries, key, val, ord) ==
    IF key \in Keys(entries)
    THEN [i \in 1..Len(entries) |->
             IF entries[i].key = key THEN [key |-> key, val |-> val] ELSE entries[i]]
    ELSE IF ord = "front" THEN <<[key |-> key, val |-> val]>> \o entries
    ELSE Append(entries, [key |-> key, val |-> val])

\* operator== on doubles
FloatEq(f, g) ==
    /\ f.cls # "nan"
    /\ g.cls # "nan"
    /\ \/ f = g
       \/ f.cls = "finite" /\ g.cls = "finite" /\ f.digs = <<"0">> /\ g.digs = <<"0">>

RECURSIVE JsonEq(_, _)
\* structural equality: the same variant and payload at every node, Array
\* elements in order, Object entries whatever their order
JsonEq(a, b) ==
    /\ a.type = b.type
    /\ CASE a.type = "Null" -> TRUE
         [] a.type = "Float" -> FloatEq(a.data, b.data)
         [] a.type = "Array" ->
               /\ Len(a.data) = Len(b.data)
               /\ \A i \in 1..Len(a.data) : JsonEq(a.data[i], b.data[i])
         [] a.type = "Object" ->
               /\ Keys(a.data) = Keys(b.data)
               /\ \A k \in Keys(a.data) : JsonEq(Lookup(a.data, k), Lookup(b.data, k))
         [] OTHER -> a.data = b.data

(***************************************************************************)
(* JsonParser: the state is the lexer and the current token.  A production *)
(* yields [err, val, ps]: the value and the parser state after it.         *)
(***************************************************************************)
\* JsonParser::JsonParser(text); the token is a default JsonToken
JsonParser(t) ==
    LET c == JsonLexer(t)
    IN  IF Threw(c) THEN c
        ELSE [err |-> "none",
              ps |-> [lexer |-> c.lx, token |-> Token("EndOfFile", 0, "nullptr")]]

\* the token NextToken stores, and the bool it returns (more)
StoreToken(r) ==
    IF Threw(r) THEN r
    ELSE [err |-> "none",
          ps |-> [lexer |-> r.lx, token |-> r.tok],
          more |-> r.tok.type # "EndOfFile"]

NextToken(ps) == StoreToken(GetNextToken(ps.lexer))

\* `auto ret = val; NextToken(); return ret;`, n being what NextToken did
Return(n, val) ==
    IF Threw(n) THEN n ELSE [err |-> "none", val |-> val, ps |-> n.ps]

ParseString(ps) == Return(NextToken(ps), JString(ps.token.data))
ParseInteger(ps) == Return(NextToken(ps), JInteger(ps.token.data))
ParseFloat(ps) == Return(NextToken(ps), JFloat(ps.token.data))
ParseBoolean(ps) == Return(NextToken(ps), JBoolean(ps.token.data))
ParseNull(ps) == Return(NextToken(ps), JNull)

\* after `,` and NextToken (n): the closer is an error
\* AfterComma without the check for a closer after the comma
AfterCommaLenient(n, closer) ==
    IF Threw(n) THEN n ELSE [err |-> "none", ps |-> n.ps]

AfterComma(n, closer) ==
    IF Threw(n) THEN n
    ELSE IF n.ps.token.type = closer THEN Throw("expected a value")
    ELSE [err |-> "none", ps |-> n.ps]

\* after a member value: ',' and not the closer, or the closer
AfterMember(ps, closer, msg) ==
    IF ps.token.type = "Comma" THEN AfterComma(NextToken(ps), closer)
    ELSE IF ps.token.type # closer THEN Throw(msg)
    ELSE [err |-> "none", ps |-> ps]

ObjectAfterValue(ps) == AfterMember(ps, "ObjectEnd", "expected '}'")

ArrayAfterValue(ps) == AfterMember(ps, "ArrayEnd", "expected ']'")

RECURSIVE ParseValue(_, _)
RECURSIVE ObjectLoop(_, _, _)
RECURSIVE ArrayLoop(_, _, _)

\* the end of an iteration of the loop of ParseObject, sep being what the
\* separator check did
ObjectNext(sep, values, ord) ==
    IF Threw(sep) THEN sep ELSE ObjectLoop(sep.ps, values, ord)

\* values[key.GetString()] = ParseValue(), pv being what ParseValue did
ObjectStore(key, pv, values, ord) ==
    IF Threw(pv) THEN pv
    ELSE ObjectNext(ObjectAfterValue(pv.ps), ObjectSet(values, key, pv.val, ord), ord)

\* NextToken() after the colon (n), then the member value
ObjectMember(key, n, values, ord) ==
    IF Threw(n) THEN n ELSE ObjectStore(key, ParseValue(n.ps, ord), values, ord)

\* Json key = ParseString() (key), then the colon
ObjectColon(key, values, ord) ==
    IF Threw(key) THEN key
    ELSE IF key.ps.token.type # "Colon" THEN Throw("expected colon")
    ELSE ObjectMember(key.val.data, NextToken(key.ps), values, ord)

\* the while loop of ParseObject and what follows it
ObjectLoop(ps, values, ord) ==
    IF ps.token.type = "ObjectEnd" THEN Return(NextToken(ps), JObject(values))
    ELSE IF ps.token.type # "String" THEN Throw("expected string")
    ELSE ObjectColon(ParseString(ps), values, ord)

\* the end of an iteration of the loop of ParseArray
ArrayNext(sep, values, ord) ==
    IF Threw(sep) THEN sep ELSE ArrayLoop(sep.ps, values, ord)

\* values.push_back(ParseValue()), pv being what ParseValue did
ArrayStore(pv, values, ord) ==
    IF Threw(pv) THEN pv
    ELSE ArrayNext(ArrayAfterValue(pv.ps), Append(values, pv.val), ord)

\* the while loop of ParseArray and what follows it
ArrayLoop(ps, values, ord) ==
    IF ps.token.type = "ArrayEnd" THEN Return(NextToken(ps), JArray(values))
    ELSE ArrayStore(ParseValue(ps, ord), values, ord)

\* ParseObject and ParseArray after their first NextToken() (n)
ObjectBody(n, ord) == IF Threw(n) THEN n ELSE ObjectLoop(n.ps, <<>>, ord)

ArrayBody(n, ord) == IF Threw(n) THEN n ELSE ArrayLoop(n.ps, <<>>, ord)

ParseObject(ps, ord) == ObjectBody(NextToken(ps), ord)

ParseArray(ps, ord) == ArrayBody(NextToken(ps), ord)

ParseValue(ps, ord) ==
    CASE ps.token.type = "ObjectStart" -> ParseObject(ps, ord)
      [] ps.token.type = "ArrayStart" -> ParseArray(ps, ord)
      [] ps.token.type = "String" -> ParseString(ps)
      [] ps.token.type = "Integer" -> ParseInteger(ps)
      [] ps.token.type = "Float" -> ParseFloat(ps)
      [] ps.token.type = "Boolean" -> ParseBoolean(ps)
      [] ps.token.type = "Null" -> ParseNull(ps)
      [] ps.token.type = "EndOfFile" -> Throw("unexpected end of input")
      [] OTHER -> Throw("unexpected token")

ScalarTokens == {"String", "Integer", "Float", "Boolean", "Null"}

\* the case of ParseValue for the token at ps, n being what the NextToken()
\* of that case did: a scalar production returns after it, ParseArray and
\* ParseObject go on to their loop
ValueCase(ps, n) ==
    IF ps.token.type \in ScalarTokens \cup {"ArrayStart", "ObjectStart"} THEN n
    ELSE IF ps.token.type = "EndOfFile" THEN Throw("unexpected end of input")
    ELSE Throw("unexpected token")

\* an iteration of the loop of ParseObject up to its ParseValue(): the key,
\* the colon and NextToken(), key being what ParseString did
MemberValueStart(key) ==
    IF Threw(key) THEN key
    ELSE IF key.ps.token.type # "Colon" THEN Throw("expected colon")
    ELSE NextToken(key.ps)

\* the parser where the value of the member at the loop head ps starts
ValueStart(closer, ps) ==
    IF closer = "ArrayEnd" THEN [err |-> "none", ps |-> ps]
    ELSE IF ps.token.type # "String" THEN Throw("expected string")
    ELSE MemberValueStart(ParseString(ps))

\* the rest of an iteration after its ParseValue() (pv): the separator check
AfterValue(closer, pv) ==
    IF Threw(pv) THEN pv
    ELSE AfterMember(pv.ps, closer,
                     IF closer = "ArrayEnd" THEN "expected ']'" ELSE "expected '}'")

\* JsonParser::Parse after its NextToken() (n)
ParseRoot(n, ord) ==
    IF Threw(n) THEN n
    ELSE IF ~n.more THEN Throw("input is empty")
    ELSE ParseValue(n.ps, ord)

\* JsonParser::Parse
ParserParse(ps, ord) == ParseRoot(NextToken(ps), ord)

\* Json::Parse(text) after the parser is constructed (p)
ParseWith(p, ord) == IF Threw(p) THEN p ELSE ParserParse(p.ps, ord)

\* Json::Parse(text): [err, val, ps], ps the parser as Parse leaves it
Parse(t, ord) == ParseWith(JsonParser(t), ord)

(***************************************************************************)
(* JsonPrinter                                                             *)
(***************************************************************************)
JsonPrinter(indentWidth) == [indentWidth |-> indentWidth, pretty |-> indentWidth # -1]

\* Stands in the output for the loop `for(int i = 0; i != totalIndent; ++i)`
\* entered with totalIndent < 0: i runs into signed overflow, which is
\* undefined behaviour.
IndentOverflow == "<INDENT-OVERFLOW>"

\* Indent writing one space per level whatever the width
IndentUnscaled(pr, ind) ==
    IF ~pr.pretty THEN <<>> ELSE Spaces(ind)

Indent(pr, ind) ==
    LET totalIndent == ind * pr.indentWidth
    IN  IF ~pr.pretty THEN <<>>
        ELSE IF totalIndent >= 0 THEN Spaces(totalIndent)
        ELSE <<IndentOverflow>>

\* EscapeChar that writes a backslash as it is
EscapeCharNoBackslash(c) ==
    CASE c = QUOTE -> <<BACKSLASH, QUOTE>>
      [] c = CR -> <<BACKSLASH, "r">>
      [] c = LF -> <<BACKSLASH, "n">>
      [] c = TAB -> <<BACKSLASH, "t">>
      [] c = BS -> <<BACKSLASH, "b">>
      [] c = FF -> <<BACKSLASH, "f">>
      [] OTHER -> <<c>>

EscapeChar(c) ==
    CASE c = QUOTE -> <<BACKSLASH, QUOTE>>
      [] c = BACKSLASH -> <<BACKSLASH, BACKSLASH>>
      [] c = CR -> <<BACKSLASH, "r">>
      [] c = LF -> <<BACKSLASH, "n">>
      [] c = TAB -> <<BACKSLASH, "t">>
      [] c = BS -> <<BACKSLASH, "b">>
      [] c = FF -> <<BACKSLASH, "f">>
      [] OTHER -> <<c>>

RECURSIVE EscapeAll(_)
EscapeAll(s) == IF s = <<>> THEN <<>> ELSE EscapeChar(Head(s)) \o EscapeAll(Tail(s))

WriteEscaped(s) == <<QUOTE>> \o EscapeAll(s) \o <<QUOTE>>

\* the Float case of ToStream
FloatToStream(f) ==
    LET str == ToCharsGeneral(f)
    IN  IF ~Contains(str, ".") THEN str \o <<".", "0">> ELSE str

\* the Boolean case of ToStream: std::boolalpha
BooleanToStream(b) ==
    IF b THEN <<"t", "r", "u", "e">> ELSE <<"f", "a", "l", "s", "e">>

NewLine(pr) == IF pr.pretty THEN <<LF>> ELSE <<>>

RECURSIVE ToStream(_, _, _)
RECURSIVE ObjectEntries(_, _, _, _)
RECURSIVE ArrayElements(_, _, _, _)

\* the for loop of the Object case, from the i-th entry on
ObjectEntries(pr, ind, obj, i) ==
    IF i > Len(obj) THEN <<>>
    ELSE (IF i > 1 THEN <<",">> \o NewLine(pr) ELSE <<>>)
         \o Indent(pr, ind + 1)
         \o WriteEscaped(obj[i].key)
         \o <<":">>
         \o (IF pr.pretty THEN <<SP>> ELSE <<>>)
         \o ToStream(pr, ind + 1, obj[i].val)
         \o ObjectEntries(pr, ind, obj, i + 1)

\* the for loop of the Array case, from the i-th element on
ArrayElements(pr, ind, arr, i) ==
    IF i > Len(arr) THEN <<>>
    ELSE (IF i > 1 THEN <<",">> \o NewLine(pr) ELSE <<>>)
         \o Indent(pr, ind + 1)
         \o ToStream(pr, ind + 1, arr[i])
         \o ArrayElements(pr, ind, arr, i + 1)

ToStream(pr, ind, value) ==
    CASE value.type = "Object" ->
            <<"{">>
            \o (IF value.data # <<>> THEN NewLine(pr) ELSE <<>>)
            \o ObjectEntries(pr, ind, value.data, 1)
            \o (IF value.data # <<>> THEN NewLine(pr) \o Indent(pr, ind) ELSE <<>>)
            \o <<"}">>
      [] value.type = "Array" ->
            <<"[">>
            \o (IF value.data # <<>> THEN NewLine(pr) ELSE <<>>)
            \o ArrayElements(pr, ind, value.data, 1)
            \o (IF value.data # <<>> THEN NewLine(pr) \o Indent(pr, ind) ELSE <<>>)
            \o <<"]">>
      [] value.type = "String" -> WriteEscaped(value.data)
      [] value.type = "Integer" -> IntegerToChars(value.data)
      [] value.type = "Float" -> FloatToStream(value.data)
      [] value.type = "Boolean" -> BooleanToStream(value.data)
      [] OTHER -> <<"n", "u", "l", "l">>

\* JsonPrinter::ToString
PrinterToString(pr, value) == ToStream(pr, 0, value)

\* Json::Dump(indent)
Dump(value, indentArg) == PrinterToString(JsonPrinter(indentArg), value)

(***************************************************************************)
(* Json: access.  std::get on the wrong alternative throws                 *)
(* std::bad_variant_access, vector::at and unordered_map::at throw          *)
(* std::out_of_range.  An operation that changes its receiver yields the   *)
(* receiver after the call as self.                                        *)
(***************************************************************************)
BadVariant == "std::bad_variant_access"

OutOfRange == "std::out_of_range"

\* StdGet that answers an empty payload for the wrong alternative
StdGetLenient(val, type) ==
    [err |-> "none", data |-> IF val.type = type THEN val.data ELSE <<>>]

\* std::get<Alternative>(data)
StdGet(val, type) ==
    IF val.type = type THEN [err |-> "none", data |-> val.data] ELSE Throw(BadVariant)

GetArray(val) == StdGet(val, "Array")

GetObject(val) == StdGet(val, "Object")

\* GetFloat that widens an Integer
GetFloatWidening(val) ==
    IF val.type = "Integer" THEN [err |-> "none", data |-> val.data]
    ELSE StdGet(val, "Float")

GetFloat(val) == StdGet(val, "Float")

\* if (IsNull()) data.emplace<Alternative>()
EmplaceIfNull(val, type) ==
    IF val.type = "Null" THEN [type |-> type, data |-> <<>>] ELSE val

\* Resize that makes every element anew
ResizeAnew(arr, n) == [k \in 1..n |-> JNull]

\* GetArray().resize(n), n above the size
Resize(arr, n) == [k \in 1..n |-> IF k <= Len(arr) THEN arr[k] ELSE JNull]

\* Json& operator[](size_t index): at is the element referred to
IndexMutable(val, index) ==
    LET g == GetArray(EmplaceIfNull(val, "Array"))
    IN  IF Threw(g) THEN g
        ELSE [err |-> "none",
              self |-> JArray(IF index >= Len(g.data) THEN Resize(g.data, index + 1)
                              ELSE g.data),
              at |-> index + 1]

\* KeyMutable that leaves a missing key out
KeyMutableReading(val, key, ord) ==
    LET g == GetObject(EmplaceIfNull(val, "Object"))
    IN  IF Threw(g) THEN g ELSE [err |-> "none", self |-> JObject(g.data)]

\* Json& operator[](key): a missing key gets a Null entry
KeyMutable(val, key, ord) ==
    LET g == GetObject(EmplaceIfNull(val, "Object"))
    IN  IF Threw(g) THEN g
        ELSE [err |-> "none",
              self |-> JObject(IF key \in Keys(g.data) THEN g.data
                               ELSE ObjectSet(g.data, key, JNull, ord))]

\* PushBack(val)
PushBackTo(self, val) ==
    LET g == GetArray(EmplaceIfNull(self, "Array"))
    IN  IF Threw(g) THEN g
        ELSE [err |-> "none", self |-> JArray(Append(g.data, val))]

\* GetAt(index) and const operator[](index): GetArray().at(index)
GetAt(val, index) ==
    LET g == GetArray(val)
    IN  IF Threw(g) THEN g
        ELSE IF index >= Len(g.data) THEN Throw(OutOfRange)
        ELSE [err |-> "none", val |-> g.data[index + 1]]

\* GetAt(key) and const operator[](key): GetObject().at(key)
GetAtKey(val, key) ==
    LET g == GetObject(val)
    IN  IF Threw(g) THEN g
        ELSE IF key \notin Keys(g.data) THEN Throw(OutOfRange)
        ELSE [err |-> "none", val |-> Lookup(g.data, key)]

IsEmpty(val) ==
    IF val.type \in {"Object", "Array", "String"} THEN val.data = <<>>
    ELSE val.type = "Null"

GetSize(val) ==
    IF val.type \in {"Object", "Array", "String"} THEN Len(val.data)
    ELSE IF val.type = "Null" THEN 0
    ELSE 1

(***************************************************************************)
(* Json: iterators.  var is the alternative the iterator holds, idx the    *)
(* 1-based position in the container (its size + 1 at the end).            *)
(***************************************************************************)
NullIter == [var |-> "null", idx |-> 0]

Begin(val) ==
    IF val.type = "Object" THEN [var |-> "object", idx |-> 1]
    ELSE IF val.type = "Array" THEN [var |-> "array", idx |-> 1]
    ELSE NullIter

End(val) ==
    IF val.type = "Object" THEN [var |-> "object", idx |-> Len(val.data) + 1]
    ELSE IF val.type = "Array" THEN [var |-> "array", idx |-> Len(val.data) + 1]
    ELSE NullIter

\* IterNext that steps over an element
IterNextSkipping(it) ==
    IF it.var = "null" THEN Throw("null")
    ELSE [err |-> "none", it |-> [it EXCEPT !.idx = IF @ = 1 THEN 3 ELSE @ + 1]]

\* operator++
IterNext(it) ==
    IF it.var = "null" THEN Throw("null")
    ELSE [err |-> "none", it |-> [it EXCEPT !.idx = @ + 1]]

\* value() of an iterator into val
IterValue(val, it) ==
    IF it.var = "object" THEN [err |-> "none", val |-> val.data[it.idx].val]
    ELSE IF it.var = "array" THEN [err |-> "none", val |-> val.data[it.idx]]
    ELSE Throw("null")

\* key() of an iterator into val
IterKey(val, it) ==
    IF it.var = "object" THEN [err |-> "none", key |-> val.data[it.idx].key]
    ELSE Throw(BadVariant)

\* Find that answers the first position for every key
FindFirst(val, key) ==
    IF val.type = "Object" THEN [var |-> "object", idx |-> 1] ELSE NullIter

\* find(key)
Find(val, key) ==
    IF val.type = "Object"
    THEN [var |-> "object",
          idx |-> IF key \in Keys(val.data)
                  THEN CHOOSE i \in 1..Len(val.data) : val.data[i].key = key
                  ELSE Len(val.data) + 1]
    ELSE NullIter

\* base_const_iterator::operator==: the assertion aborts a build with
\* assertions; without them (ndebug) iterators of different kinds reach the
\* last branch, where std::get<NullIter> throws on the one that is not null
IterEquals(a, b, ndebug) ==
    IF a.var = b.var THEN [err |-> "none", result |-> a.idx = b.idx]
    ELSE IF ndebug THEN Throw("std::bad_variant_access")
    ELSE Throw("assertion failed: var.index() == it.var.index()")

RECURSIVE Visit(_, _, _)
\* for (it = ...; it != val.end(); ++it) visited.push_back(*it); fuel bounds
\* the steps a run of the model follows
Visit(val, it, fuel) ==
    IF it = End(val) THEN [err |-> "none", visited |-> <<>>, ended |-> TRUE]
    ELSE IF fuel = 0 \/ it.idx > Len(val.data)
    THEN [err |-> "none", visited |-> <<>>, ended |-> FALSE]
    ELSE LET rest == Visit(val, IterNext(it).it, fuel - 1)
         IN  [rest EXCEPT !.visited = <<val.data[it.idx]>> \o @]

(***************************************************************************)
(* Conversion between native values and Values (to_json / from_json).      *)
(* A native type is a record: integer types by name, double, bool, string, *)
(* sequences (vector, list, forward_list), std::array of n elements, maps  *)
(* with string keys, and user records with a to_json / from_json pair that *)
(* goes through the fields in order.  A native integer is a sign and a     *)
(* magnitude, a native sequence a sequence, a native map a function of its *)
(* keys, a native record a function of its field names.                    *)
(***************************************************************************)
TInteger(name) == [k |-> "integer", name |-> name]

TDouble == [k |-> "double"]

TBool == [k |-> "bool"]

TString == [k |-> "string"]

TSequence(kind, of) == [k |-> "sequence", kind |-> kind, of |-> of]

TArray(of, n) == [k |-> "array", of |-> of, n |-> n]

TMap(kind, of) == [k |-> "map", kind |-> kind, of |-> of]

TRecord(name, fields) == [k |-> "record", name |-> name, fields |-> fields]

\* 2^64 - m for a magnitude 0 < m < 2^64
MagNegate64(m) ==
    LET c == [i \in 1..4 |-> LimbBase - 1 - m[i]]
        c4 == c[4] + 1
        c3 == c[3] + c4 \div LimbBase
        c2 == c[2] + c3 \div LimbBase
        c1 == c[1] + c2 \div LimbBase
    IN  <<c1 % LimbBase, c2 % LimbBase, c3 % LimbBase, c4 % LimbBase>>

\* (Json::IntegerType)x for a native integer x of the named type
ToInteger(x, name) ==
    IF name = "uint64_t" /\ x.mag[1] >= LimbBase \div 2
    THEN [neg |-> TRUE, mag |-> MagNegate64(x.mag)]
    ELSE x

\* (T)n for an int64_t n and the named integer type T
FromInteger(n, name) ==
    IF name = "uint64_t"
    THEN (IF n.neg THEN [neg |-> FALSE, mag |-> MagNegate64(n.mag)] ELSE n)
    ELSE IF name = "int"
    THEN LET t == IF n.neg THEN MagNegate64(n.mag) ELSE n.mag
             low == <<0, 0, t[3], t[4]>>
         IN  IF t[3] >= LimbBase \div 2
             THEN [neg |-> TRUE,
                   mag |-> <<0, 0, MagNegate64(low)[3], MagNegate64(low)[4]>>]
             ELSE [neg |-> FALSE, mag |-> low]
    ELSE n

\* the first exception among the results rs, or none
FirstThrown(rs) ==
    IF \E i \in 1..Len(rs) : Threw(rs[i])
    THEN rs[CHOOSE i \in 1..Len(rs) : Threw(rs[i]) /\ \A j \in 1..(i - 1) : ~Threw(rs[j])]
    ELSE [err |-> "none"]

\* arr[i] of a std::vector is unchecked: past the end it is undefined
VectorOverrun == "<UB: vector index out of range>"

RECURSIVE FromJson(_, _)

\* from_json of the sequence containers and of std::array, on the elements
\* arr read
SeqFromJson(g, n, T) ==
    IF Threw(g) THEN g
    ELSE LET m == IF n > Len(g.data) THEN Len(g.data) ELSE n
             rs == [i \in 1..m |-> FromJson(g.data[i], T.of)]
         IN  IF Threw(FirstThrown(rs)) THEN FirstThrown(rs)
             ELSE IF n > Len(g.data) THEN Throw(VectorOverrun)
             ELSE [err |-> "none", val |-> [i \in 1..n |-> rs[i].val]]

\* the indexes i of arr[i] in from_json(obj, std::array<T, N>&), from 0 up
\* to the one where Get<T> throws, all N of them when none does
ArrayReads(val, T) ==
    IF val.type # "Array" THEN {}
    ELSE {i \in 0..(T.n - 1) :
             \A j \in 1..i : j <= Len(val.data) /\ ~Threw(FromJson(val.data[j], T.of))}

\* what arr[i] past the end of the vector may hold for Get<int64_t>
GarbageIntegers == {I64(0), I64(7)}

\* from_json(obj, std::array<int64_t, N>&): r is the conversion as
\* SeqFromJson computes it.  The read past the end of the vector is
\* undefined: it faults, or Get<int64_t> of what lies there throws, or it
\* yields whatever integer lies there
ArrayFromJson(val, T, r) ==
    IF r.err # VectorOverrun THEN {r}
    ELSE {r, Throw("std::bad_variant_access")}
         \cup {[err |-> "none",
                val |-> [i \in 1..T.n |->
                            IF i <= Len(val.data) THEN val.data[i].data ELSE g]] :
               g \in GarbageIntegers}

\* from_json of unordered_map and map
MapFromJson(g, T) ==
    IF Threw(g) THEN g
    ELSE LET rs == [i \in 1..Len(g.data) |-> FromJson(g.data[i].val, T.of)]
         IN  IF Threw(FirstThrown(rs)) THEN FirstThrown(rs)
             ELSE [err |-> "none",
                   val |-> [key \in Keys(g.data) |-> FromJson(Lookup(g.data, key), T.of).val]]

\* a user from_json: x.field = obj["field"], field by field
RecordFromJson(val, T) ==
    LET fs == [i \in 1..Len(T.fields) |-> GetAtKey(val, T.fields[i].name)]
        rs == [i \in 1..Len(T.fields) |->
                  IF Threw(fs[i]) THEN fs[i] ELSE FromJson(fs[i].val, T.fields[i].type)]
    IN  IF Threw(FirstThrown(rs)) THEN FirstThrown(rs)
        ELSE [err |-> "none",
              val |-> [name \in {T.fields[i].name : i \in 1..Len(T.fields)} |->
                          rs[CHOOSE i \in 1..Len(T.fields) : T.fields[i].name = name].val]]

\* the scalar from_json overloads
ScalarFromJson(g) == IF Threw(g) THEN g ELSE [err |-> "none", val |-> g.data]

\* from_json(obj, val) for a val of type T
FromJson(val, T) ==
    CASE T.k = "integer" ->
            LET g == StdGet(val, "Integer")
            IN  IF Threw(g) THEN g
                ELSE [err |-> "none", val |-> FromInteger(g.data, T.name)]
      [] T.k = "double" -> ScalarFromJson(GetFloat(val))
      [] T.k = "bool" -> ScalarFromJson(StdGet(val, "Boolean"))
      [] T.k = "string" -> ScalarFromJson(StdGet(val, "String"))
      [] T.k = "sequence" ->
            SeqFromJson(GetArray(val), IF val.type = "Array" THEN Len(val.data) ELSE 0, T)
      [] T.k = "array" -> SeqFromJson(GetArray(val), T.n, T)
      [] T.k = "map" -> MapFromJson(GetObject(val), T)
      [] OTHER -> RecordFromJson(val, T)

\* T Get() const
Get(val, T) == FromJson(val, T)

\* T Get(T defaultValue) const
GetOr(val, T, defaultValue) ==
    IF val.type # "Null" THEN FromJson(val, T)
    ELSE [err |-> "none", val |-> defaultValue]

\* T GetValue(key, T defaultValue) const
GetValue(val, key, T, defaultValue) ==
    LET g == GetObject(val)
    IN  IF Threw(g) THEN g
        ELSE IF key \in Keys(g.data) THEN Get(Lookup(g.data, key), T)
        ELSE [err |-> "none", val |-> defaultValue]

RECURSIVE ToJson(_, _, _)

\* SeqToJson that pushes the items the other way round
RECURSIVE SeqToJsonReversed(_, _, _, _)

SeqToJsonReversed(cont, n, T, ord) ==
    IF n = 0 THEN JArray(<<>>)
    ELSE JArray(<<ToJson(cont[n], T.of, ord)>> \o SeqToJsonReversed(cont, n - 1, T, ord).data)

\* to_json of the sequence containers and of std::array: Json::Array(), then
\* PushBack of the first n items
RECURSIVE SeqToJson(_, _, _, _)

SeqToJson(cont, n, T, ord) ==
    IF n = 0 THEN JArray(<<>>)
    ELSE PushBackTo(SeqToJson(cont, n - 1, T, ord), ToJson(cont[n], T.of, ord)).self

\* to_json of unordered_map and map: objectValue[key] = Json(value) for the
\* entries keys of cont, in an order the hash tables choose
RECURSIVE MapToJson(_, _, _, _)

MapToJson(cont, keys, T, ord) ==
    IF keys = {} THEN <<>>
    ELSE LET key == CHOOSE k \in keys : TRUE
         IN  ObjectSet(MapToJson(cont, keys \ {key}, T, ord), key,
                       ToJson(cont[key], T.of, ord), ord)

\* obj[key] = e;
AssignKey(obj, key, e, ord) ==
    JObject(ObjectSet(KeyMutable(obj, key, ord).self.data, key, e, ord))

\* a user to_json: obj["field"] = x.field, for the first n fields
RECURSIVE RecordToJson(_, _, _, _)

RecordToJson(x, T, n, ord) ==
    IF n = 0 THEN JNull
    ELSE AssignKey(RecordToJson(x, T, n - 1, ord), T.fields[n].name,
                   ToJson(x[T.fields[n].name], T.fields[n].type, ord), ord)

\* to_json(obj, val) for a val of type T, on a new Json obj
ToJson(val, T, ord) ==
    CASE T.k = "integer" -> JInteger(ToInteger(val, T.name))
      [] T.k = "double" -> JFloat(val)
      [] T.k = "bool" -> JBoolean(val)
      [] T.k = "string" -> JString(val)
      [] T.k = "sequence" -> SeqToJson(val, Len(val), T, ord)
      [] T.k = "array" -> SeqToJson(val, T.n, T, ord)
      [] T.k = "map" -> JObject(MapToJson(val, DOMAIN val, T, ord))
      [] OTHER -> RecordToJson(val, T, Len(T.fields), ord)

(***************************************************************************)
(* The programs: one builds a Value, dumps it and parses the dump; one     *)
(* parses a text; one scans the first token of a text.                     *)
(***************************************************************************)
MaxElems == 2
MaxIndent == 2
MaxTyped == 4
MaxNumLen == 5
MaxStrLen == 3
MaxIndex == 2
MaxVisit == 4
MaxCalls == 5
MaxChunks == 3

Unset == [err |-> "unset"]
NotDumped == [status |-> "none"]
NoResult == [op |-> "none"]
NoNative == [kind |-> "none"]

\* the indent arguments of Dump: -1 is its default
IndentArgs == (-2)..MaxIndent

IntegerSamples == {I64(0), I64(7), I64(-12), I64(65536), INT64_MAX, INT64_MIN}

FloatSamples ==
    {Finite(FALSE, <<"1">>, 0), Finite(TRUE, <<"1", "5">>, 0),
     Finite(FALSE, <<"2", "5">>, -2), Finite(FALSE, <<"1">>, 5),
     Finite(FALSE, <<"1">>, 20), Finite(FALSE, <<"1", "5">>, 20),
     Finite(FALSE, <<"1">>, -5), Finite(TRUE, <<"0">>, 0)}

StringSamples == {<<>>, <<"a">>, <<"a", LF, "b">>, <<QUOTE, BACKSLASH, SP>>}

Scalars ==
    {JNull, JBoolean(TRUE), JBoolean(FALSE)}
    \cup {JInteger(n) : n \in IntegerSamples}
    \cup {JFloat(f) : f \in FloatSamples}
    \cup {JString(s) : s \in StringSamples}

\* the values a program puts into a container
Elements ==
    {JNull, JBoolean(TRUE), JInteger(I64(7)), JString(<<"a", LF, "b">>),
     JFloat(Finite(TRUE, <<"1", "5">>, 0)), JFloat(Finite(FALSE, <<"1">>, 20)),
     JArray(<<>>), JObject(<<>>),
     JArray(<<JInteger(I64(1)), JArray(<<>>)>>),
     JObject(<<[key |-> <<"k">>, val |-> JArray(<<JBoolean(FALSE)>>)]>>)}

KeySamples == {<<"a">>, <<"b", QUOTE>>}

Init ==
    /\ v = JNull
    /\ indent = -1
    /\ dumped = NotDumped
    /\ text = <<>>
    /\ typed = 0
    /\ parsed = Unset
    /\ tok = Unset
    /\ redumped = NotDumped
    /\ res = NoResult
    /\ nat = NoNative

Building == dumped = NotDumped /\ parsed = Unset /\ tok = Unset /\ typed = 0

\* Json::operator=(T&&) with a scalar, on a fresh Value
Assign(s) ==
    /\ Building
    /\ v = JNull
    /\ v' = s
    /\ UNCHANGED <<indent, dumped, text, typed, parsed, tok, redumped, res, nat>>

\* Json::PushBack(val) on a Null or Array Value
PushBack(e) ==
    /\ Building
    /\ v.type \in {"Null", "Array"}
    /\ LET arr == IF v.type = "Null" THEN <<>> ELSE v.data
       IN  /\ Len(arr) < MaxElems
           /\ v' = JArray(Append(arr, e))
    /\ UNCHANGED <<indent, dumped, text, typed, parsed, tok, redumped, res, nat>>

\* v[key] = e: Json::operator[](key) on a Null or Object Value, then the
\* assignment to the entry
SetKey(key, e, ord) ==
    /\ Building
    /\ v.type \in {"Null", "Object"}
    /\ LET obj == IF v.type = "Null" THEN <<>> ELSE v.data
       IN  /\ Len(obj) < MaxElems \/ key \in Keys(obj)
           /\ v' = JObject(ObjectSet(obj, key, e, ord))
    /\ UNCHANGED <<indent, dumped, text, typed, parsed, tok, redumped, res, nat>>

\* What a build can make of the undefined loop of Indent: it never ends
\* ("hang"), or i wraps around and a run of 2^32 + totalIndent spaces is
\* written ("wrap": the run stays the one element IndentOverflow of the text).
\* what Dump leaves in the program's string
Dumped(out) ==
    IF Contains(out, IndentOverflow)
    THEN {[status |-> "hang"], [status |-> "wrap", text |-> out]}
    ELSE {[status |-> "ok", text |-> out]}

\* std::string dump = v.Dump(n)
DumpValue(n) ==
    /\ dumped = NotDumped
    /\ typed = 0
    /\ indent' = n
    /\ dumped' \in Dumped(Dump(v, n))
    /\ UNCHANGED <<v, text, typed, parsed, tok, redumped, res, nat>>

\* Json::Parse(dump)
ParseDump(ord) ==
    /\ dumped.status = "ok"
    /\ parsed = Unset
    /\ parsed' = Parse(dumped.text, ord)
    /\ UNCHANGED <<v, indent, dumped, text, typed, tok, redumped, res, nat>>

\* std::string dump2 = Json::Parse(dump).Dump(n), n the indent of the first
\* dump
Redump ==
    /\ parsed # Unset
    /\ ~Threw(parsed)
    /\ redumped = NotDumped
    /\ redumped' \in Dumped(Dump(parsed.val, indent))
    /\ UNCHANGED <<v, indent, dumped, text, typed, parsed, tok, res, nat>>

Next ==
    \/ \E s \in Scalars : Assign(s)
    \/ \E e \in Elements : PushBack(e)
    \/ \E key \in KeySamples, e \in Elements, ord \in HashOrders : SetKey(key, e, ord)
    \/ \E n \in IndentArgs : DumpValue(n)
    \/ \E ord \in HashOrders : ParseDump(ord)
    \/ Redump

Spec == Init /\ [][Next]_vars

(***************************************************************************)
(* A text typed in chunks and parsed.                                      *)
(***************************************************************************)
StringA == <<QUOTE, "a", QUOTE>>

Chunks ==
    {<<"1">>, <<SP>>, <<"[">>, <<"]">>, <<"{">>, <<"}">>, <<",">>, <<":">>, StringA}

Seeds == {<<>>, <<"[", "1">>, <<"{">> \o StringA \o <<":", "1">>}

InitText ==
    /\ v = JNull
    /\ indent = -1
    /\ dumped = NotDumped
    /\ text \in Seeds
    /\ typed = 0
    /\ parsed = Unset
    /\ tok = Unset
    /\ redumped = NotDumped
    /\ res = NoResult
    /\ nat = NoNative

Type(chunk) ==
    /\ parsed = Unset
    /\ tok = Unset
    /\ typed < MaxTyped
    /\ text' = text \o chunk
    /\ typed' = typed + 1
    /\ UNCHANGED <<v, indent, dumped, parsed, tok, redumped, res, nat>>

\* Json::Parse(text)
ParseText(ord) ==
    /\ parsed = Unset
    /\ parsed' = Parse(text, ord)
    /\ UNCHANGED <<v, indent, dumped, text, typed, tok, redumped, res, nat>>

NextText ==
    \/ \E chunk \in Chunks : Type(chunk)
    \/ \E ord \in HashOrders : ParseText(ord)

SpecText == InitText /\ [][NextText]_vars

(***************************************************************************)
(* A number-like text typed character by character, and its first token.   *)
(***************************************************************************)
NumChars == {"0", "1", "2", "-", "+", ".", "e", "E"}

TypeChar(c) ==
    /\ tok = Unset
    /\ typed < MaxNumLen
    /\ text' = Append(text, c)
    /\ typed' = typed + 1
    /\ UNCHANGED <<v, indent, dumped, parsed, tok, redumped, res, nat>>

FirstToken(c) == IF Threw(c) THEN c ELSE GetNextToken(c.lx)

\* JsonLexer lexer(text); lexer.GetNextToken()
Scan ==
    /\ tok = Unset
    /\ tok' = FirstToken(JsonLexer(text))
    /\ UNCHANGED <<v, indent, dumped, text, typed, parsed, redumped, res, nat>>

NextNum ==
    \/ \E c \in NumChars : TypeChar(c)
    \/ Scan

SpecNum == Init /\ [][NextNum]_vars

(***************************************************************************)
(* A string built byte by byte, dumped, scanned and parsed back.           *)
(***************************************************************************)
StrBytes ==
    {QUOTE, BACKSLASH, CR, LF, TAB, BS, FF, NUL, "a", "/", "u", LeadByte, ContByte, BadByte}

InitStr ==
    /\ v = JString(<<>>)
    /\ indent = -1
    /\ dumped = NotDumped
    /\ text = <<>>
    /\ typed = 0
    /\ parsed = Unset
    /\ tok = Unset
    /\ redumped = NotDumped
    /\ res = NoResult
    /\ nat = NoNative

\* v.GetString().push_back(b)
AppendByte(b) ==
    /\ Building
    /\ Len(v.data) < MaxStrLen
    /\ v' = JString(Append(v.data, b))
    /\ UNCHANGED <<indent, dumped, text, typed, parsed, tok, redumped, res, nat>>

\* JsonLexer lexer(dump); lexer.GetNextToken()
ScanDump ==
    /\ dumped.status = "ok"
    /\ tok = Unset
    /\ tok' = FirstToken(JsonLexer(dumped.text))
    /\ UNCHANGED <<v, indent, dumped, text, typed, parsed, redumped, res, nat>>

NextStr ==
    \/ \E b \in StrBytes : AppendByte(b)
    \/ DumpValue(-1)
    \/ ScanDump
    \/ ParseDump("front")
    \/ Redump

SpecStr == InitStr /\ [][NextStr]_vars

(***************************************************************************)
(* A Value written and read through its accessors.  res records the last   *)
(* call: its name, its arguments, the receiver before it and what it       *)
(* returned or threw.                                                      *)
(***************************************************************************)
AccessSeeds ==
    {JNull, JString(<<>>), JString(<<"a", "b">>), JString(<<"a", LeadByte, ContByte>>),
     JInteger(I64(7)), JFloat(Finite(TRUE, <<"1", "5">>, 0)), JBoolean(FALSE),
     JArray(<<>>), JObject(<<>>)}

AccessElems == {JInteger(I64(7)), JString(<<"a">>)}

AccessKeys == {<<"a">>, <<"b">>}

InitAccess ==
    /\ v \in AccessSeeds
    /\ indent = -1
    /\ dumped = NotDumped
    /\ text = <<>>
    /\ typed = 0
    /\ parsed = Unset
    /\ tok = Unset
    /\ redumped = NotDumped
    /\ res = NoResult
    /\ nat = NoNative

\* the receiver after a call that returned out
After(out) == IF Threw(out) THEN v ELSE out.self

\* v.PushBack(e);
Push(e) ==
    /\ GetSize(v) <= MaxIndex
    /\ res' = [op |-> "PushBack", before |-> v, out |-> PushBackTo(v, e)]
    /\ v' = After(PushBackTo(v, e))
    /\ UNCHANGED <<indent, dumped, text, typed, parsed, tok, redumped, nat>>

\* v[index];
Subscript(index) ==
    /\ res' = [op |-> "operator[](index)", index |-> index, before |-> v,
               out |-> IndexMutable(v, index)]
    /\ v' = After(IndexMutable(v, index))
    /\ UNCHANGED <<indent, dumped, text, typed, parsed, tok, redumped, nat>>

\* the receiver after v[index] = e
Stored(out, e) ==
    IF Threw(out) THEN v ELSE JArray([out.self.data EXCEPT ![out.at] = e])

\* v[index] = e;
SubscriptAssign(index, e) ==
    /\ res' = [op |-> "operator[](index) =", index |-> index, before |-> v,
               out |-> IndexMutable(v, index)]
    /\ v' = Stored(IndexMutable(v, index), e)
    /\ UNCHANGED <<indent, dumped, text, typed, parsed, tok, redumped, nat>>

\* v[key];
SubscriptKey(key, ord) ==
    /\ res' = [op |-> "operator[](key)", key |-> key, before |-> v,
               out |-> KeyMutable(v, key, ord)]
    /\ v' = After(KeyMutable(v, key, ord))
    /\ UNCHANGED <<indent, dumped, text, typed, parsed, tok, redumped, nat>>

\* the receiver after v[key] = e
StoredKey(out, key, e, ord) ==
    IF Threw(out) THEN v ELSE JObject(ObjectSet(out.self.data, key, e, ord))

\* v[key] = e;
SubscriptKeyAssign(key, e, ord) ==
    /\ res' = [op |-> "operator[](key) =", key |-> key, before |-> v,
               out |-> KeyMutable(v, key, ord)]
    /\ v' = StoredKey(KeyMutable(v, key, ord), key, e, ord)
    /\ UNCHANGED <<indent, dumped, text, typed, parsed, tok, redumped, nat>>

\* v.GetAt(index), or v[index] on a const Value (name says which)
ReadIndex(name, index) ==
    /\ res' = [op |-> name, index |-> index, before |-> v, out |-> GetAt(v, index)]
    /\ UNCHANGED <<v, indent, dumped, text, typed, parsed, tok, redumped, nat>>

\* v.GetAt(key), or v[key] on a const Value (name says which)
ReadKey(name, key) ==
    /\ res' = [op |-> name, key |-> key, before |-> v, out |-> GetAtKey(v, key)]
    /\ UNCHANGED <<v, indent, dumped, text, typed, parsed, tok, redumped, nat>>

\* v.GetSize(); v.IsEmpty();
QuerySize ==
    /\ res' = [op |-> "GetSize", before |-> v, size |-> GetSize(v), empty |-> IsEmpty(v)]
    /\ UNCHANGED <<v, indent, dumped, text, typed, parsed, tok, redumped, nat>>

\* for (auto it = v.begin(); it != v.end(); ++it) ...
Iterate ==
    /\ res' = [op |-> "iterate", before |-> v, empty |-> Begin(v) = End(v),
               out |-> Visit(v, Begin(v), MaxVisit)]
    /\ UNCHANGED <<v, indent, dumped, text, typed, parsed, tok, redumped, nat>>

\* v.find(key)
FindKey(key) ==
    /\ res' = [op |-> "find", key |-> key, before |-> v, it |-> Find(v, key)]
    /\ UNCHANGED <<v, indent, dumped, text, typed, parsed, tok, redumped, nat>>

\* the native types the Value is converted to
AccessTypes ==
    {TInteger("int64_t"), TDouble, TBool, TString,
     TSequence("vector", TInteger("int64_t")), TSequence("list", TString),
     TMap("unordered_map", TInteger("int64_t"))}

RECURSIVE DefaultOf(_)

\* the defaultValue passed for each native type
DefaultOf(T) ==
    CASE T.k = "integer" -> I64(-1)
      [] T.k = "double" -> Finite(FALSE, <<"2", "5">>, 0)
      [] T.k = "bool" -> TRUE
      [] T.k = "string" -> <<"d">>
      [] T.k = "sequence" -> <<DefaultOf(T.of)>>
      [] OTHER -> [key \in {<<"d">>} |-> DefaultOf(T.of)]

\* v.Get<T>();
Convert(T) ==
    /\ res' = [op |-> "Get", T |-> T, before |-> v, out |-> Get(v, T)]
    /\ UNCHANGED <<v, indent, dumped, text, typed, parsed, tok, redumped, nat>>

\* v.Get<T>(defaultValue);
ConvertOr(T) ==
    /\ res' = [op |-> "Get(default)", T |-> T, before |-> v,
               out |-> GetOr(v, T, DefaultOf(T))]
    /\ UNCHANGED <<v, indent, dumped, text, typed, parsed, tok, redumped, nat>>

\* v.GetValue<T>(key, defaultValue);
ConvertValue(key, T) ==
    /\ res' = [op |-> "GetValue", T |-> T, key |-> key, before |-> v,
               out |-> GetValue(v, key, T, DefaultOf(T))]
    /\ UNCHANGED <<v, indent, dumped, text, typed, parsed, tok, redumped, nat>>

\* the fixed-length native types the Value is converted to
ArrayTypes == {TArray(TInteger("int64_t"), n) : n \in 1..MaxElems}

\* std::array<int64_t, N> a; from_json(v, a);  obj.GetArray() throws
\* before the loop when v is not an Array
ConvertArray(T) ==
    /\ res' \in {[op |-> "from_json(std::array)", T |-> T, before |-> v,
                  reads |-> ArrayReads(v, T), out |-> out] :
                 out \in IF v.type = "Array" THEN ArrayFromJson(v, T, FromJson(v, T))
                         ELSE {GetArray(v)}}
    /\ UNCHANGED <<v, indent, dumped, text, typed, parsed, tok, redumped, nat>>

NextAccess ==
    \/ \E T \in ArrayTypes : ConvertArray(T)
    \/ \E T \in AccessTypes : Convert(T)
    \/ \E T \in AccessTypes : ConvertOr(T)
    \/ \E key \in AccessKeys, T \in AccessTypes : ConvertValue(key, T)
    \/ \E e \in AccessElems : Push(e)
    \/ \E i \in 0..MaxIndex : Subscript(i)
    \/ \E i \in 0..MaxIndex, e \in AccessElems : SubscriptAssign(i, e)
    \/ \E key \in AccessKeys, ord \in HashOrders : SubscriptKey(key, ord)
    \/ \E key \in AccessKeys, e \in AccessElems, ord \in HashOrders :
           SubscriptKeyAssign(key, e, ord)
    \/ \E i \in 0..MaxIndex, name \in {"GetAt(index)", "const operator[](index)"} :
           ReadIndex(name, i)
    \/ \E key \in AccessKeys, name \in {"GetAt(key)", "const operator[](key)"} :
           ReadKey(name, key)
    \/ QuerySize
    \/ Iterate
    \/ \E key \in AccessKeys : FindKey(key)

SpecAccess == InitAccess /\ [][NextAccess]_vars

(***************************************************************************)
(* A native value nat.val of type nat.T is filled in, converted to the     *)
(* Value v (Json obj = x;) and converted back (T result = obj;), which res *)
(* records.  The records are the ones of TestConversion.                   *)
(***************************************************************************)
NameField == <<"n", "a", "m", "e">>

NumberField == <<"n", "u", "m", "b", "e", "r">>

AgeField == <<"a", "g", "e">>

AddressField == <<"a", "d", "d", "r", "e", "s", "s">>

ParentsField == <<"p", "a", "r", "e", "n", "t", "s">>

ChildrenField == <<"c", "h", "i", "l", "d", "r", "e", "n">>

Parent ==
    TRecord("Parent", <<[name |-> NameField, type |-> TString],
                        [name |-> NumberField, type |-> TInteger("uint64_t")]>>)

Child ==
    TRecord("Child", <<[name |-> NameField, type |-> TString],
                       [name |-> AgeField, type |-> TInteger("int")]>>)

Family ==
    TRecord("Family", <<[name |-> AddressField, type |-> TString],
                        [name |-> ParentsField, type |-> TSequence("vector", Parent)],
                        [name |-> ChildrenField, type |-> TSequence("vector", Child)]>>)

\* 555'567'1234 and the largest uint64_t
PhoneSamples ==
    {[neg |-> FALSE, mag |-> <<0, 1, 19236, 53442>>],
     [neg |-> FALSE, mag |-> <<LimbBase - 1, LimbBase - 1, LimbBase - 1, LimbBase - 1>>]}

NameSamples == {<<>>, <<"T", "o", "m">>}

\* the items a container of element type T is filled with
ItemSamples(T) ==
    CASE T.k = "integer" ->
            (IF T.name = "uint64_t" THEN PhoneSamples ELSE {I64(5), I64(-3)})
      [] T.k = "string" -> NameSamples
      [] T.k = "record" /\ T.name = "Parent" ->
            {(NameField :> n) @@ (NumberField :> p) : n \in {<<"T", "o", "m">>}, p \in PhoneSamples}
      [] OTHER ->
            {(NameField :> n) @@ (AgeField :> a) : n \in NameSamples, a \in {I64(5)}}

EmptyFamily == (AddressField :> <<>>) @@ (ParentsField :> <<>>) @@ (ChildrenField :> <<>>)

InitConv ==
    /\ \/ nat = [T |-> TSequence("vector", TInteger("int64_t")), val |-> <<>>]
       \/ nat = [T |-> TSequence("list", TString), val |-> <<>>]
       \/ nat = [T |-> TSequence("forward_list", TInteger("uint64_t")), val |-> <<>>]
       \/ nat = [T |-> TArray(TInteger("int"), MaxElems), val |-> [i \in 1..MaxElems |-> I64(0)]]
       \/ nat = [T |-> TMap("unordered_map", TInteger("int")), val |-> <<>>]
       \/ nat = [T |-> TMap("map", TString), val |-> <<>>]
       \/ nat = [T |-> Family, val |-> EmptyFamily]
    /\ v = JNull
    /\ indent = -1
    /\ dumped = NotDumped
    /\ text = <<>>
    /\ typed = 0
    /\ parsed = Unset
    /\ tok = Unset
    /\ redumped = NotDumped
    /\ res = NoResult

\* cont.push_back(x);
AppendItem ==
    /\ res = NoResult
    /\ nat.T.k = "sequence"
    /\ Len(nat.val) < MaxElems
    /\ \E x \in ItemSamples(nat.T.of) : nat' = [nat EXCEPT !.val = Append(@, x)]
    /\ UNCHANGED <<v, indent, dumped, text, typed, parsed, tok, redumped, res>>

\* cont[i] = x; on a std::array
SetItem(i) ==
    /\ res = NoResult
    /\ nat.T.k = "array"
    /\ \E x \in ItemSamples(nat.T.of) : nat' = [nat EXCEPT !.val[i] = x]
    /\ UNCHANGED <<v, indent, dumped, text, typed, parsed, tok, redumped, res>>

\* cont[key] = x; on a native map
PutEntry(key) ==
    /\ res = NoResult
    /\ nat.T.k = "map"
    /\ \E x \in ItemSamples(nat.T.of) : nat' = [nat EXCEPT !.val = (key :> x) @@ @]
    /\ UNCHANGED <<v, indent, dumped, text, typed, parsed, tok, redumped, res>>

\* family.address = a;
SetAddress(a) ==
    /\ res = NoResult
    /\ nat.T = Family
    /\ nat' = [nat EXCEPT !.val[AddressField] = a]
    /\ UNCHANGED <<v, indent, dumped, text, typed, parsed, tok, redumped, res>>

\* family.parents.push_back(p); family.children.push_back(c);
AddMember(field, T) ==
    /\ res = NoResult
    /\ nat.T = Family
    /\ Len(nat.val[field]) < MaxElems
    /\ \E m \in ItemSamples(T) : nat' = [nat EXCEPT !.val[field] = Append(@, m)]
    /\ UNCHANGED <<v, indent, dumped, text, typed, parsed, tok, redumped, res>>

\* Json obj = x;
ConvertToJson(ord) ==
    /\ res = NoResult
    /\ v' = ToJson(nat.val, nat.T, ord)
    /\ res' = [op |-> "to_json", ord |-> ord]
    /\ UNCHANGED <<indent, dumped, text, typed, parsed, tok, redumped, nat>>

\* T result = obj;
ConvertBack ==
    /\ res.op = "to_json"
    /\ res' = [op |-> "from_json", out |-> Get(v, nat.T)]
    /\ UNCHANGED <<v, indent, dumped, text, typed, parsed, tok, redumped, nat>>

NextConv ==
    \/ AppendItem
    \/ \E i \in 1..MaxElems : SetItem(i)
    \/ \E key \in KeySamples : PutEntry(key)
    \/ \E a \in NameSamples : SetAddress(a)
    \/ AddMember(ParentsField, Parent)
    \/ AddMember(ChildrenField, Child)
    \/ \E ord \in HashOrders : ConvertToJson(ord)
    \/ ConvertBack

SpecConv == InitConv /\ [][NextConv]_vars

(***************************************************************************)
(* An object text typed member by member, parsed into v, and v written by  *)
(* key afterwards.  nat keeps the members typed, in source order.          *)
(***************************************************************************)
Member(key, val, chars) == [key |-> key, val |-> val, chars |-> chars]

FirstMember == Member(<<"a">>, JInteger(I64(1)), <<QUOTE, "a", QUOTE, ":", "1">>)

Members ==
    {Member(<<"a">>, JArray(<<>>), <<QUOTE, "a", QUOTE, ":", "[", "]">>),
     Member(<<"b">>, JInteger(I64(1)), <<QUOTE, "b", QUOTE, ":", "1">>),
     Member(<<"b">>, JString(<<"a">>), <<QUOTE, "b", QUOTE, ":", QUOTE, "a", QUOTE>>)}

InitKeys ==
    /\ v = JNull
    /\ indent = -1
    /\ dumped = NotDumped
    /\ text = <<"{">> \o FirstMember.chars
    /\ typed = 0
    /\ parsed = Unset
    /\ tok = Unset
    /\ redumped = NotDumped
    /\ res = NoResult
    /\ nat = <<FirstMember>>

\* text += "," + member
TypeMember(m) ==
    /\ parsed = Unset
    /\ typed < MaxTyped
    /\ text' = text \o <<",">> \o m.chars
    /\ typed' = typed + 1
    /\ nat' = Append(nat, m)
    /\ UNCHANGED <<v, indent, dumped, parsed, tok, redumped, res>>

\* the Value a successful Parse assigns
Assigned(p, old) == IF Threw(p) THEN old ELSE p.val

\* v = Json::Parse(text + "}")
ParseObjectText(ord) ==
    /\ parsed = Unset
    /\ parsed' = Parse(Append(text, "}"), ord)
    /\ v' = Assigned(Parse(Append(text, "}"), ord), v)
    /\ UNCHANGED <<indent, dumped, text, typed, tok, redumped, res, nat>>

\* v[key] = e; and v[key]; on the parsed Value
WriteKey(key, e, ord) ==
    /\ parsed # Unset
    /\ \/ SubscriptKeyAssign(key, e, ord)
       \/ SubscriptKey(key, ord)

NextKeys ==
    \/ \E m \in Members : TypeMember(m)
    \/ \E ord \in HashOrders : ParseObjectText(ord)
    \/ \E key \in AccessKeys, e \in AccessElems, ord \in HashOrders : WriteKey(key, e, ord)

SpecKeys == InitKeys /\ [][NextKeys]_vars

(***************************************************************************)
(* A text typed in chunks and handed to a JsonLexer, whose GetNextToken is *)
(* then called again and again.  tok is what the last call returned and    *)
(* the lexer after it; nat keeps the lexer before that call, the number of *)
(* calls and the tokens returned so far; res is what Tokenize returned.    *)
(***************************************************************************)
LexChunks ==
    {<<SP>>, <<LF>>, <<"1">>, <<",">>, <<"+">>, StringA, <<"n", "u", "l", "l">>}

\* JsonLexer lexer(text);
Construct ==
    /\ tok = Unset
    /\ tok' = JsonLexer(text)
    /\ nat' = [calls |-> 0, tokens |-> <<>>]
    /\ UNCHANGED <<v, indent, dumped, text, typed, parsed, redumped, res>>

\* the tokens returned so far, r being what the last call did
Returned(tokens, r) == IF Threw(r) THEN tokens ELSE Append(tokens, r.tok)

\* lexer.GetNextToken();
CallGetNextToken ==
    /\ tok # Unset
    /\ ~Threw(tok)
    /\ nat.calls < MaxCalls
    /\ tok' = GetNextToken(tok.lx)
    /\ nat' = [calls |-> nat.calls + 1, lx |-> tok.lx,
               tokens |-> Returned(nat.tokens, GetNextToken(tok.lx))]
    /\ UNCHANGED <<v, indent, dumped, text, typed, parsed, redumped, res>>

\* JsonLexer::Tokenize(text);
TokenizeText ==
    /\ tok # Unset
    /\ res = NoResult
    /\ res' = [op |-> "Tokenize", out |-> Tokenize(text)]
    /\ UNCHANGED <<v, indent, dumped, text, typed, parsed, tok, redumped, nat>>

NextLex ==
    \/ \E chunk \in LexChunks : Type(chunk)
    \/ Construct
    \/ CallGetNextToken
    \/ TokenizeText

SpecLex == Init /\ [][NextLex]_vars

(***************************************************************************)
(* The progress of the lexer and of the parser's loops over a typed text:  *)
(* either GetNextToken is called again and again (tok, nat as above), or   *)
(* the text is parsed whole (parsed), or the parser is followed from the   *)
(* head of one iteration of a ParseArray or ParseObject loop to the next:  *)
(* res keeps the loop's closing token, the parser at this head and the     *)
(* parser at the head before.                                              *)
(***************************************************************************)
TypeChunk(chunk) ==
    /\ res = NoResult
    /\ typed < MaxChunks
    /\ Type(chunk)

\* JsonLexer lexer(text); on a text that is not parsed
ConstructLexer ==
    /\ res = NoResult
    /\ parsed = Unset
    /\ Construct

\* Json::Parse(text) on a text no lexer was made for
ParseWhole(ord) ==
    /\ res = NoResult
    /\ tok = Unset
    /\ ParseText(ord)

\* the closing token of the loop a container's first token opens
LoopCloser(type) == IF type = "ArrayStart" THEN "ArrayEnd" ELSE "ObjectEnd"

Openers == {"ArrayStart", "ObjectStart"}

\* the NextToken() of JsonParser::Parse, on the parser p
FirstParsed(p) == IF Threw(p) THEN p ELSE NextToken(p.ps)

\* the loops entered and not left, innermost last: each with its closing
\* token and the parser at the head of the iteration under way in the loop
\* around it
Loop(closer, from) == [closer |-> closer, from |-> from]

\* the parser at the head of the innermost loop: step says whether it got
\* there by entering the loop or by an iteration, which began at from
AtHead(step, stack, head, from, iterations) ==
    [op |-> "loop", step |-> step, stack |-> stack, head |-> head, from |-> from,
     iterations |-> iterations]

NotALoop == [op |-> "no loop"]

\* Parse up to the head of the loop of the outermost container, n being
\* what the NextToken() of Parse did and h what the NextToken() of
\* ParseArray or ParseObject does
Entered(n, h) ==
    IF Threw(n) THEN NotALoop
    ELSE IF n.ps.token.type \notin Openers THEN NotALoop
    ELSE AtHead("entered", <<Loop(LoopCloser(n.ps.token.type), n.ps)>>, h, n.ps, 0)

\* the NextToken() of the parser n has reached, if it has reached one
Following(n) == IF Threw(n) THEN n ELSE NextToken(n.ps)

EnteredFrom(n) == Entered(n, Following(n))

\* Json::Parse(text) up to the head of the loop of its outermost container
EnterLoop ==
    /\ res = NoResult
    /\ tok = Unset
    /\ parsed = Unset
    /\ res' = EnteredFrom(FirstParsed(JsonParser(text)))
    /\ UNCHANGED <<v, indent, dumped, text, typed, parsed, tok, redumped, nat>>

InLoop == res.op = "loop" /\ ~Threw(res.head)

Innermost == res.stack[Len(res.stack)]

\* from the loop head to the next head the parser reaches: start is the
\* parser at the member's value and n what the NextToken() of its case of
\* ParseValue did.  A scalar member ends the iteration with the separator
\* check; a container member leads to the head of its own loop.
Stepped(loop, closer, start, n) ==
    IF Threw(start)
    THEN AtHead("iterated", loop.stack, start, loop.head.ps, loop.iterations + 1)
    ELSE IF start.ps.token.type \in Openers
    THEN AtHead("entered",
                Append(loop.stack, Loop(LoopCloser(start.ps.token.type), loop.head.ps)),
                ValueCase(start.ps, n), loop.head.ps, loop.iterations)
    ELSE AtHead("iterated", loop.stack, AfterValue(closer, ValueCase(start.ps, n)),
                loop.head.ps, loop.iterations + 1)

SteppedFrom(loop, closer, start) == Stepped(loop, closer, start, Following(start))

\* the parser runs from the head of the loop to the next head
StepLoop ==
    /\ InLoop
    /\ res.head.ps.token.type # Innermost.closer
    /\ res' = SteppedFrom(res, Innermost.closer, ValueStart(Innermost.closer, res.head.ps))
    /\ UNCHANGED <<v, indent, dumped, text, typed, parsed, tok, redumped, nat>>

\* the loop of the nested container ends: its NextToken(), and the rest of
\* the iteration of the loop around it, which began at the head the nested
\* container was entered from
LeaveNested ==
    /\ InLoop
    /\ Len(res.stack) >= 2
    /\ res.head.ps.token.type = Innermost.closer
    /\ res' = AtHead("iterated", SubSeq(res.stack, 1, Len(res.stack) - 1),
                     AfterValue(res.stack[Len(res.stack) - 1].closer,
                                Following(res.head)),
                     Innermost.from, res.iterations + 1)
    /\ UNCHANGED <<v, indent, dumped, text, typed, parsed, tok, redumped, nat>>

NextProgress ==
    \/ \E chunk \in Chunks : TypeChunk(chunk)
    \/ ConstructLexer
    \/ CallGetNextToken
    \/ \E ord \in HashOrders : ParseWhole(ord)
    \/ EnterLoop
    \/ StepLoop
    \/ LeaveNested

SpecProgress == InitText /\ [][NextProgress]_vars

(***************************************************************************)
(* Properties                                                              *)
(***************************************************************************)

\* C1: whenever a built Value v was dumped (with any indent argument) and
\* the dump was parsed, the parse returned a Value structurally equal to v.
C1_RoundTrip ==
    parsed # Unset => ~Threw(parsed) /\ JsonEq(parsed.val, v)

\* C2: whenever Parse returns a Value, the token after the root value is
\* EndOfFile: a text with anything after its first root value is rejected.
C2_TrailingRejected ==
    (parsed # Unset /\ ~Threw(parsed)) => parsed.ps.token.type = "EndOfFile"

(***************************************************************************)
(* C3.  The member rules, read off a text by a scanner that keeps the      *)
(* stack of open containers: it answers the message a separator error must *)
(* carry, "accept" when the root value is complete, and "other" for every  *)
(* other way a text can fail.                                              *)
(***************************************************************************)
SeparatorErrors == {"expected a value", "expected '}'", "expected ']'"}

IsScalarToken(t) == t \in {"String", "Integer", "Float", "Boolean", "Null"}

Closer(kind) == IF kind = "Object" THEN "ObjectEnd" ELSE "ArrayEnd"

CloserMessage(kind) == IF kind = "Object" THEN "expected '}'" ELSE "expected ']'"

Top(stack) == stack[Len(stack)]

Pop(stack) == SubSeq(stack, 1, Len(stack) - 1)

RECURSIVE RefScan(_, _, _)
RECURSIVE RefStep(_, _, _)

\* a value is complete and leaves `stack` open
RefComplete(lx, stack) ==
    IF stack = <<>> THEN "accept" ELSE RefScan(lx, stack, "after")

\* token type t starts a value
RefValue(t, lx, stack) ==
    IF IsScalarToken(t) THEN RefComplete(lx, stack)
    ELSE IF t = "ObjectStart" THEN RefScan(lx, Append(stack, "Object"), "open")
    ELSE IF t = "ArrayStart" THEN RefScan(lx, Append(stack, "Array"), "open")
    ELSE "other"

\* r is the next token, read in state st
RefStep(r, stack, st) ==
    IF Threw(r) THEN "other"
    ELSE IF st = "value" THEN RefValue(r.tok.type, r.lx, stack)
    ELSE IF st = "colon"
    THEN (IF r.tok.type = "Colon" THEN RefScan(r.lx, stack, "value") ELSE "other")
    ELSE IF st = "after"
    THEN (IF r.tok.type = "Comma" THEN RefScan(r.lx, stack, "comma")
          ELSE IF r.tok.type = Closer(Top(stack)) THEN RefComplete(r.lx, Pop(stack))
          ELSE CloserMessage(Top(stack)))
    ELSE IF r.tok.type = Closer(Top(stack))
    THEN (IF st = "comma" THEN "expected a value" ELSE RefComplete(r.lx, Pop(stack)))
    ELSE IF Top(stack) = "Array" THEN RefValue(r.tok.type, r.lx, stack)
    ELSE IF r.tok.type = "String" THEN RefScan(r.lx, stack, "colon")
    ELSE "other"

RefScan(lx, stack, st) == RefStep(GetNextToken(lx), stack, st)

RefVerdict(t) ==
    IF t = <<>> THEN "other" ELSE RefScan(JsonLexer(t).lx, <<>>, "value")

\* C3: Parse fails with "expected a value" exactly when a ',' after a member
\* value is followed by the closer, with "expected '}'" (object) or
\* "expected ']'" (array) exactly when a member value is followed by a token
\* that is neither ',' nor the closer (EndOfFile included); `{}` and `[]`
\* parse to the empty Object and Array.
C3_MemberSeparators ==
    parsed # Unset =>
        /\ RefVerdict(text) \in SeparatorErrors => parsed.err = RefVerdict(text)
        /\ parsed.err \in SeparatorErrors => RefVerdict(text) = parsed.err
        /\ text = <<"{", "}">> => ~Threw(parsed) /\ parsed.val = JObject(<<>>)
        /\ text = <<"[", "]">> => ~Threw(parsed) /\ parsed.val = JArray(<<>>)

C3_Witness ==
    /\ parsed # Unset
    /\ parsed.err = "expected a value"
    /\ text = <<"{">> \o StringA \o <<":", "1", ",", "}">>

\* C4: Parse of the empty text or of a text of whitespace only fails with
\* "input is empty".
C4_EmptyInput ==
    (parsed # Unset /\ \A i \in 1..Len(text) : text[i] \in {SP, TAB, LF, VT, FF, CR})
        => parsed.err = "input is empty"

\* the characters the first token was scanned from
Scanned == SubSeq(text, 1, tok.lx.pos - 1)

IsNumberToken(r) == ~Threw(r) /\ r.tok.type \in {"Integer", "Float"}

\* C5: a number token is Float exactly when its text has a decimal point or
\* an exponent, and a Float token carries the value of its whole text.
C5_FloatClassification ==
    (tok # Unset /\ IsNumberToken(tok)) =>
        /\ tok.tok.type = "Float" <=>
               (Contains(Scanned, ".") \/ Contains(Scanned, "e") \/ Contains(Scanned, "E"))
        /\ tok.tok.type = "Float" => tok.tok.data = FromCharsDouble(Scanned).value

\* [+|-]? digits ('.' digits)? ([eE] [+|-]? digits)?
IsNumberForm(s) ==
    LET signed == s # <<>> /\ Head(s) \in {"+", "-"}
        a == IF signed THEN Tail(s) ELSE s
        n1 == DigitRun(a)
        b == Drop(a, n1 + 1)
        dotted == b # <<>> /\ Head(b) = "."
        n2 == IF dotted THEN DigitRun(Tail(b)) ELSE 0
        c == IF dotted THEN Drop(b, n2 + 2) ELSE b
        hasExp == c # <<>> /\ Head(c) \in {"e", "E"}
        esigned == hasExp /\ Len(c) >= 2 /\ c[2] \in {"+", "-"}
        d == IF esigned THEN Drop(c, 3) ELSE Drop(c, 2)
    IN  /\ n1 >= 1
        /\ dotted => n2 >= 1
        /\ IF hasExp THEN d # <<>> /\ DigitRun(d) = Len(d) ELSE c = <<>>

StartsLikeNumber(s) == s # <<>> /\ (IsDigit(Head(s)) \/ Head(s) \in {"+", "-"})

\* C6: a text of the number form is scanned as one number token that covers
\* it all; a text that starts like a number and is not of the form fails
\* with "invalid number".
C6_NumberForm ==
    tok # Unset =>
        /\ IsNumberForm(text) => IsNumberToken(tok) /\ IsEndOfFile(tok.lx)
        /\ (StartsLikeNumber(text) /\ ~IsNumberForm(text)) => tok.err = "invalid number"

\* C7: the dump of an Integer Value, the two ends of the signed 64-bit range
\* included, parses back to the same Integer.
C7_IntegerRoundTrip ==
    (parsed # Unset /\ v.type = "Integer") => ~Threw(parsed) /\ parsed.val = v

C7_Witness ==
    /\ v = JInteger(INT64_MIN)
    /\ parsed # Unset
    /\ ~Threw(parsed)
    /\ dumped.text = <<"-">> \o MagDigits(MagMin)

\* C8: the dump of a Float Value contains a '.' and is scanned as one Float
\* token that covers it all; the dump of an Integer Value contains no '.'.
C8_FloatDumpIsFloat ==
    dumped.status = "ok" =>
        /\ v.type = "Float" =>
               /\ Contains(dumped.text, ".")
               /\ ~Threw(FirstToken(JsonLexer(dumped.text)))
               /\ FirstToken(JsonLexer(dumped.text)).tok.type = "Float"
               /\ IsEndOfFile(FirstToken(JsonLexer(dumped.text)).lx)
        /\ v.type = "Integer" => ~Contains(dumped.text, ".")

RECURSIVE OutsideStrings(_, _)
\* the characters of a dump that are not part of a string literal
OutsideStrings(s, inString) ==
    IF s = <<>> THEN <<>>
    ELSE IF inString
    THEN (IF Head(s) = BACKSLASH THEN OutsideStrings(Drop(s, 3), TRUE)
          ELSE OutsideStrings(Tail(s), Head(s) # QUOTE))
    ELSE IF Head(s) = QUOTE THEN OutsideStrings(Tail(s), TRUE)
    ELSE <<Head(s)>> \o OutsideStrings(Tail(s), FALSE)

\* C9: Dump with no indent argument (-1) or with any negative indent returns
\* the compact rendering: nothing but the value's own characters, no newline
\* and no space outside string literals.
C9_NegativeIndentCompact ==
    (dumped # NotDumped /\ indent < 0) =>
        /\ dumped.status = "ok"
        /\ \A c \in {SP, LF, IndentOverflow} : ~Contains(OutsideStrings(dumped.text, FALSE), c)

(***************************************************************************)
(* C10.  The pretty layout written line by line: a value is a sequence of  *)
(* lines of which the first continues the line it starts on.              *)
(***************************************************************************)
\* s with x put before its first line and y after its last
Framed(x, lines, y) ==
    [k \in 1..Len(lines) |->
        (IF k = 1 THEN x ELSE <<>>) \o lines[k] \o (IF k = Len(lines) THEN y ELSE <<>>)]

JoinLines(lines) ==
    LET F[k \in 0..Len(lines)] ==
            IF k = 0 THEN <<>>
            ELSE F[k - 1] \o (IF k > 1 THEN <<LF>> ELSE <<>>) \o lines[k]
    IN  F[Len(lines)]

RECURSIVE PrettyLines(_, _, _)
RECURSIVE PrettyEntries(_, _, _, _, _)

\* the lines of the entries of a container from the i-th on, at depth d
PrettyEntries(isObject, data, n, d, i) ==
    IF i > Len(data) THEN <<>>
    ELSE Framed(Spaces(n * d)
                    \o (IF isObject THEN WriteEscaped(data[i].key) \o <<":", SP>> ELSE <<>>),
                PrettyLines(IF isObject THEN data[i].val ELSE data[i], n, d + 1),
                IF i < Len(data) THEN <<",">> ELSE <<>>)
         \o PrettyEntries(isObject, data, n, d, i + 1)

\* the lines of val, whose entries are at depth d
PrettyLines(val, n, d) ==
    IF val.type \notin {"Object", "Array"} THEN <<ToStream(JsonPrinter(-1), 0, val)>>
    ELSE IF val.data = <<>>
    THEN <<IF val.type = "Object" THEN <<"{", "}">> ELSE <<"[", "]">> >>
    ELSE <<IF val.type = "Object" THEN <<"{">> ELSE <<"[">> >>
         \o PrettyEntries(val.type = "Object", val.data, n, d, 1)
         \o <<Spaces(n * (d - 1)) \o (IF val.type = "Object" THEN <<"}">> ELSE <<"]">>)>>

\* C10: with indent n >= 0, Dump puts every entry of a non-empty container
\* on a line of its own behind n*d spaces (d the entry's depth, 1 for the
\* root's entries), writes an object entry as its key, ": " and its value,
\* puts the closer on its own line behind n*(d-1) spaces, and writes an
\* empty container as {} or [] with nothing inside.
C10_PrettyLayout ==
    (dumped # NotDumped /\ indent >= 0) =>
        /\ dumped.status = "ok"
        /\ dumped.text = JoinLines(PrettyLines(v, indent, 1))

C10_Witness ==
    /\ dumped # NotDumped
    /\ indent = 2
    /\ v.type = "Object"
    /\ Len(v.data) = 2
    /\ \E i \in 1..2 : v.data[i].val.type = "Array" /\ v.data[i].val.data # <<>>
    /\ dumped.text = ToStream(JsonPrinter(2), 0, v)

\* C11: for a fixed indent n, the dump of the Value parsed from Dump(v, n)
\* is the text Dump(v, n) itself, Object entries in the same order.
C11_DumpIdempotent ==
    redumped # NotDumped => redumped = dumped

RECURSIVE IsValidUtf8(_)
\* s is a sequence of whole UTF-8 sequences
IsValidUtf8(s) ==
    IF s = <<>> THEN TRUE
    ELSE IF Head(s) = LeadByte
    THEN Len(s) >= 2 /\ s[2] = ContByte /\ IsValidUtf8(Drop(s, 3))
    ELSE Head(s) \notin {ContByte, BadByte} /\ IsValidUtf8(Tail(s))

\* the string v of the program round-trips: its dump is scanned as one
\* String token with v's payload that covers the dump, parses to v, and the
\* parsed Value is dumped as the same text
StringRoundTrips ==
    /\ tok # Unset =>
           /\ ~Threw(tok)
           /\ tok.tok.type = "String"
           /\ tok.tok.data = v.data
           /\ IsEndOfFile(tok.lx)
    /\ parsed # Unset => ~Threw(parsed) /\ parsed.val = v
    /\ redumped # NotDumped => redumped = dumped

GrownTo(before, after, index) ==
    /\ after.type = "Array"
    /\ Len(after.data) = index + 1
    /\ \A k \in 1..Len(before) : k <= index => after.data[k] = before[k]
    /\ \A k \in (Len(before) + 1)..index : after.data[k] = JNull

\* C13: mutable operator[](index) makes a Null Value an Array of length
\* index + 1 with Null below index; it grows an Array of size <= index to
\* length index + 1, padding with Null and keeping every element; mutable
\* operator[](key) makes a Null Value an Object that contains key.
C13_AutoVivify ==
    /\ (res.op \in {"operator[](index)", "operator[](index) ="}
            /\ res.before.type = "Null") =>
           GrownTo(<<>>, v, res.index)
    /\ (res.op \in {"operator[](index)", "operator[](index) ="}
            /\ res.before.type = "Array" /\ Len(res.before.data) <= res.index) =>
           GrownTo(res.before.data, v, res.index)
    /\ (res.op = "operator[](index)"
            /\ (res.before.type = "Null"
                   \/ (res.before.type = "Array" /\ Len(res.before.data) <= res.index))) =>
           v.data[res.index + 1] = JNull
    /\ (res.op \in {"operator[](key)", "operator[](key) ="}
            /\ res.before.type = "Null") =>
           v.type = "Object" /\ Keys(v.data) = {res.key}

C13_Witness ==
    /\ res.op = "operator[](index)"
    /\ res.before = JArray(<<JInteger(I64(7))>>)
    /\ res.index = 2
    /\ v = JArray(<<JInteger(I64(7)), JNull, JNull>>)

IndexReads == {"GetAt(index)", "const operator[](index)"}

KeyReads == {"GetAt(key)", "const operator[](key)"}

IndexWrites == {"operator[](index)", "operator[](index) ="}

KeyWrites == {"operator[](key)", "operator[](key) ="}

\* the call recorded in res threw and left the Value as it was
FailedUnchanged == Threw(res.out) /\ v = res.before

\* C14: GetAt and const operator[] fail on every Value that is not of the
\* matching container kind, Null included; mutable operator[] fails on
\* String, Integer, Float, Boolean and on the container of the other kind;
\* a failed access leaves the Value unchanged, and only a Null receiver of
\* mutable operator[] is promoted.
C14_WrongVariantAccess ==
    /\ (res.op \in IndexReads /\ res.before.type # "Array") => FailedUnchanged
    /\ (res.op \in KeyReads /\ res.before.type # "Object") => FailedUnchanged
    /\ (res.op \in IndexWrites /\ res.before.type \notin {"Null", "Array"}) =>
           FailedUnchanged
    /\ (res.op \in KeyWrites /\ res.before.type \notin {"Null", "Object"}) =>
           FailedUnchanged
    /\ (res.op \in IndexWrites /\ res.before.type = "Null") =>
           ~Threw(res.out) /\ v.type = "Array"
    /\ (res.op \in KeyWrites /\ res.before.type = "Null") =>
           ~Threw(res.out) /\ v.type = "Object"

C14_Witness ==
    /\ res.op = "operator[](index)"
    /\ res.before.type = "Object"
    /\ res.before.data # <<>>
    /\ res.out = Throw(BadVariant)
    /\ v = res.before

\* the number of characters (code points) of a UTF-8 string
CharCount(s) == Cardinality({k \in 1..Len(s) : s[k] # ContByte})

\* the size C15 gives a Value
ClaimedSize(val) ==
    IF val.type \in {"Object", "Array"} THEN Len(val.data)
    ELSE IF val.type = "String" THEN CharCount(val.data)
    ELSE IF val.type = "Null" THEN 0
    ELSE 1

\* C15: GetSize is the entry count of an Object or Array, the number of
\* characters of a String (multi-byte UTF-8 characters counted once), 0 for
\* Null and 1 for Integer, Float and Boolean; IsEmpty says whether that
\* size is zero.
C15_SizeAndEmpty ==
    res.op = "GetSize" =>
        /\ res.size = ClaimedSize(res.before)
        /\ res.empty = (ClaimedSize(res.before) = 0)

\* C16: a loop from begin() to end() ends and visits exactly the entries:
\* the elements of an Array in index order, each once, whatever PushBack
\* calls and indexed writes built it; one entry per key of an Object;
\* nothing for Null, String, Integer, Float and Boolean, where begin() equals
\* end() and nothing fails.
C16_Iteration ==
    res.op = "iterate" =>
        /\ ~Threw(res.out)
        /\ res.out.ended
        /\ res.before.type = "Array" => res.out.visited = res.before.data
        /\ res.before.type = "Object" =>
               /\ Len(res.out.visited) = Cardinality(Keys(res.before.data))
               /\ {res.out.visited[k].key : k \in 1..Len(res.out.visited)}
                      = Keys(res.before.data)
               /\ \A k \in 1..Len(res.out.visited) :
                      res.out.visited[k].val
                          = Lookup(res.before.data, res.out.visited[k].key)
        /\ res.before.type \notin {"Array", "Object"} =>
               res.empty /\ res.out.visited = <<>>

C16_Witness ==
    /\ res.op = "iterate"
    /\ res.before = JArray(<<JNull, JString(<<"a">>), JInteger(I64(7))>>)
    /\ res.out.ended
    /\ res.out.visited = <<JNull, JString(<<"a">>), JInteger(I64(7))>>

\* C17: find(key) throws for no variant and leaves the Value as it was; on
\* an Object it returns end() exactly when key is absent and otherwise a
\* position whose value() is the entry under key; on any other Value it
\* returns the null position.
C17_Find ==
    res.op = "find" =>
        /\ v = res.before
        /\ res.it.var \in {"null", "object"}
        /\ res.before.type = "Object" =>
               /\ res.it = End(res.before) <=> res.key \notin Keys(res.before.data)
               /\ res.key \in Keys(res.before.data) =>
                      /\ IterKey(res.before, res.it) = [err |-> "none", key |-> res.key]
                      /\ IterValue(res.before, res.it)
                             = [err |-> "none", val |-> Lookup(res.before.data, res.key)]
        /\ res.before.type # "Object" => res.it = NullIter

C17_Witness ==
    /\ res.op = "find"
    /\ res.before.type = "Object"
    /\ Len(res.before.data) = 2
    /\ res.key = res.before.data[2].key
    /\ res.before.data[2].val = JInteger(I64(7))
    /\ IterValue(res.before, res.it) = [err |-> "none", val |-> JInteger(I64(7))]

\* C18: conversion with a caller-supplied default never fails.  Get<T>(d) and
\* GetValue<T>(key, d) return a T for every Value and never raise; they yield
\* the default when the source is Null or the key is missing.
C18_DefaultNeverFails ==
    /\ res.op = "Get(default)" =>
           /\ ~Threw(res.out)
           /\ res.before.type = "Null" => res.out.val = DefaultOf(res.T)
    /\ res.op = "GetValue" =>
           /\ ~Threw(res.out)
           /\ (res.before.type = "Object" /\ res.key \notin Keys(res.before.data)) =>
                  res.out.val = DefaultOf(res.T)

\* what the native type T requires of a Value, element by element
RECURSIVE Matches(_, _)

Matches(val, T) ==
    CASE T.k = "integer" -> val.type = "Integer"
      [] T.k = "double" -> val.type = "Float"
      [] T.k = "bool" -> val.type = "Boolean"
      [] T.k = "string" -> val.type = "String"
      [] T.k = "sequence" ->
            /\ val.type = "Array"
            /\ \A i \in 1..Len(val.data) : Matches(val.data[i], T.of)
      [] OTHER ->
            /\ val.type = "Object"
            /\ \A i \in 1..Len(val.data) : Matches(val.data[i].val, T.of)

\* C19: Get<T>() fails with a wrong-variant error whenever the active variant
\* of the Value, or of an element nested in it, is not the one T requires
\* (Integer for integers, Float and not Integer for floating point, Boolean,
\* String, Array for sequences, Object for maps), and succeeds otherwise.
C19_GetRequiresVariant ==
    res.op = "Get" =>
        IF Matches(res.before, res.T) THEN ~Threw(res.out)
        ELSE res.out = Throw(BadVariant)

C19_Witness ==
    /\ res.op = "Get"
    /\ res.T = TDouble
    /\ res.before = JInteger(I64(7))
    /\ res.out = Throw(BadVariant)

\* the Value a native scalar becomes
Scalar(x, T) == IF T.k = "string" THEN JString(x) ELSE JInteger(ToInteger(x, T.name))

\* C20: native -> Value -> native is the identity.  A sequence becomes an Array
\* with one element per item in the same order, a map with text keys an Object
\* with exactly its key/value pairs, and each converts back to an equal native;
\* a Family record converts back with every field and element count equal.
C20_NativeRoundTrip ==
    /\ res.op \in {"to_json", "from_json"} =>
           CASE nat.T.k \in {"sequence", "array"} ->
                   /\ v.type = "Array"
                   /\ Len(v.data) = Len(nat.val)
                   /\ \A i \in 1..Len(nat.val) : v.data[i] = Scalar(nat.val[i], nat.T.of)
             [] nat.T.k = "map" ->
                   /\ v.type = "Object"
                   /\ Len(v.data) = Cardinality(DOMAIN nat.val)
                   /\ Keys(v.data) = DOMAIN nat.val
                   /\ \A key \in DOMAIN nat.val :
                          Lookup(v.data, key) = Scalar(nat.val[key], nat.T.of)
             [] OTHER ->
                   /\ v.type = "Object"
                   /\ Keys(v.data) = {AddressField, ParentsField, ChildrenField}
    /\ res.op = "from_json" =>
           /\ ~Threw(res.out)
           /\ res.out.val = nat.val

C20_Witness ==
    /\ res.op = "from_json"
    /\ nat.T = Family
    /\ Len(nat.val[ParentsField]) = MaxElems
    /\ Len(nat.val[ChildrenField]) = MaxElems
    /\ nat.val[AddressField] # <<>>
    /\ res.out = [err |-> "none", val |-> nat.val]

\* every Object in val, nested ones included, has one entry per key
RECURSIVE UniqueKeys(_)

UniqueKeys(val) ==
    CASE val.type = "Object" ->
            /\ Cardinality(Keys(val.data)) = Len(val.data)
            /\ \A i \in 1..Len(val.data) : UniqueKeys(val.data[i].val)
      [] val.type = "Array" -> \A i \in 1..Len(val.data) : UniqueKeys(val.data[i])
      [] OTHER -> TRUE

\* the value of the last of the members typed that has the key
LastTyped(members, key) ==
    members[CHOOSE i \in 1..Len(members) :
                /\ members[i].key = key
                /\ \A j \in (i + 1)..Len(members) : members[j].key # key].val

\* C21: the keys of an Object are unique after any parses and keyed writes,
\* and a key the parsed text repeats inside one object has a single entry,
\* holding the last of its values in source order.
C21_UniqueKeys ==
    /\ UniqueKeys(v)
    /\ parsed # Unset =>
          /\ ~Threw(parsed)
          /\ UniqueKeys(parsed.val)
          /\ parsed.val.type = "Object"
          /\ Keys(parsed.val.data) = {nat[i].key : i \in 1..Len(nat)}
          /\ \A key \in Keys(parsed.val.data) :
                 Lookup(parsed.val.data, key) = LastTyped(nat, key)

C21_Witness ==
    /\ parsed # Unset
    /\ ~Threw(parsed)
    /\ Len(nat) = 3
    /\ nat[2].key = <<"a">>
    /\ nat[3].key = <<"b">>
    /\ parsed.val.data = <<[key |-> <<"b">>, val |-> nat[3].val],
                           [key |-> <<"a">>, val |-> JArray(<<>>)]>>
    /\ res.op = "operator[](key) ="
    /\ res.key = <<"b">>
    /\ Len(v.data) = 2

\* the call before the last one returned an EndOfFile token
AfterEndOfFile == nat.calls >= 2 /\ nat.tokens[nat.calls - 1].type = "EndOfFile"

\* C22: once GetNextToken has returned an EndOfFile token, every later call
\* returns EndOfFile again, never another token and never an error, and
\* leaves the cursor unchanged.
C22_EndOfFileSticky ==
    (tok # Unset /\ ~Threw(JsonLexer(text)) /\ AfterEndOfFile) =>
        /\ ~Threw(tok)
        /\ tok.tok.type = "EndOfFile"
        /\ tok.lx = nat.lx
        /\ \A i \in 1..Len(nat.tokens) :
               nat.tokens[i].type = "EndOfFile" =>
                   \A j \in i..Len(nat.tokens) : nat.tokens[j] = nat.tokens[i]

C22_Witness ==
    /\ text = <<"1", SP, LF>>
    /\ tok # Unset
    /\ nat.calls = 4
    /\ nat.tokens[2].type = "EndOfFile"
    /\ nat.tokens[4].type = "EndOfFile"
    /\ tok.lx.pos = 4

\* the tokens GetNextToken has returned end with the first EndOfFile token
UpToEndOfFile(tokens) ==
    /\ tokens # <<>>
    /\ tokens[Len(tokens)].type = "EndOfFile"
    /\ \A i \in 1..(Len(tokens) - 1) : tokens[i].type # "EndOfFile"

\* C30: Tokenize(text) returns the tokens that repeated calls of GetNextToken
\* on a fresh lexer return up to and including the first EndOfFile token, so
\* its result ends with exactly one EndOfFile token, with or without
\* whitespace after the last token of the text.
C30_TokenizeEndsWithEndOfFile ==
    (res.op = "Tokenize" /\ ~Threw(res.out)) =>
        /\ UpToEndOfFile(res.out.tokens)
        /\ (~Threw(tok) /\ UpToEndOfFile(nat.tokens)) => res.out.tokens = nat.tokens

\* C26: Json::Parse ends on every text with a Value or an error: a call of
\* GetNextToken that returns a token other than EndOfFile moves the cursor
\* forward by at least one code point and never past the end of the text,
\* and an iteration of the loop of ParseObject or ParseArray consumes at
\* least one token.
C26_Progress ==
    /\ (tok # Unset /\ ~Threw(tok) /\ nat.calls >= 1 /\ tok.tok.type # "EndOfFile") =>
          /\ nat.lx.next > nat.lx.pos
          /\ tok.lx.pos >= nat.lx.next
          /\ tok.lx.pos <= EndOf(tok.lx)
          /\ tok.lx.next <= EndOf(tok.lx)
    /\ (res.op = "loop" /\ res.step = "iterated" /\ ~Threw(res.head)) =>
          /\ res.head.ps.lexer.pos > res.from.lexer.pos
          /\ res.head.ps.lexer.pos <= EndOf(res.head.ps.lexer)
    /\ parsed # Unset =>
          \/ Threw(parsed)
          \/ /\ parsed.val.type \in
                    {"Null", "Integer", "Float", "Boolean", "String", "Array", "Object"}
             /\ parsed.ps.lexer.pos <= EndOf(parsed.ps.lexer)

C26_Witness ==
    /\ text = <<"[", "1", ",", "1", "]">>
    /\ res.op = "loop"
    /\ res.step = "iterated"
    /\ res.iterations = 2
    /\ ~Threw(res.head)
    /\ res.head.ps.token.type = "ArrayEnd"
    /\ res.from.lexer.pos = 5
    /\ res.head.ps.lexer.pos = 6


\* whether the decimal digs[1].digs[2..] * 10^exp exceeds the decimal
\* limit[1].limit[2..] * 10^18, limit of 19 digits
RECURSIVE DigitsGreater(_, _)
DigitsGreater(a, b) ==
    IF a = <<>> \/ b = <<>> THEN FALSE
    ELSE IF DigitVal(Head(a)) # DigitVal(Head(b)) THEN DigitVal(Head(a)) > DigitVal(Head(b))
    ELSE DigitsGreater(Tail(a), Tail(b))

ExceedsInt64(d) ==
    LET limit == MagDigits(IF d.neg THEN MagMin ELSE MagMax)
        padded == d.digs \o Zeros(Len(limit) - Len(d.digs))
    IN  /\ d.cls = "finite"
        /\ d.digs # <<"0">>
        /\ \/ d.exp > 18
           \/ d.exp = 18 /\ (Len(d.digs) > Len(limit) \/ DigitsGreater(padded, limit))

\* a number text without a decimal point whose value is outside
\* [-2^63, 2^63-1]
IntegerLiteralOutOfRange(s) ==
    /\ IsNumberForm(s)
    /\ ~Contains(s, ".")
    /\ FromCharsDouble(s).ec = "ok"
    /\ ExceedsInt64(FromCharsDouble(s).value)

\* C25: a number text without a decimal point whose value is outside
\* [-2^63, 2^63-1] is rejected with "invalid number"; no token is returned.
C25_IntegerRangeRejected ==
    (tok # Unset /\ IntegerLiteralOutOfRange(text)) => tok.err = "invalid number"


(***************************************************************************)
(* A text of literal letters typed letter by letter, and its first token.  *)
(* chars is a std::string: its storage holds the characters of the text    *)
(* and one terminator, offsets 1 .. Len(chars) + 1 here.  std::equal is    *)
(* handed the range [p, p + n) whatever is left of the text; a range that  *)
(* leaves the storage is undefined behaviour, whose outcomes are the       *)
(* mismatch found at the terminator and a fault of the read.               *)
(***************************************************************************)
MaxLitLen == 5

LitChars == {"t", "r", "u", "e", "f", "a", "l", "s", "n", "R"}

TrueWord == <<"t", "r", "u", "e">>
FalseWord == <<"f", "a", "l", "s", "e">>
NullWord == <<"n", "u", "l", "l">>

\* the range [first, last) of std::equal(p, p + Len(word), word)
EqualRange(lx, word) == [first |-> lx.pos, last |-> lx.pos + Len(word)]

\* the ranges GetBooleanToken and GetNullToken hand to std::equal
EqualRanges(lx) ==
    IF lx.value = "t" \/ lx.value = "f"
    THEN IF LiteralAt(lx, TrueWord) THEN <<EqualRange(lx, TrueWord)>>
         ELSE <<EqualRange(lx, TrueWord), EqualRange(lx, FalseWord)>>
    ELSE IF lx.value = "n" THEN <<EqualRange(lx, NullWord)>>
    ELSE <<>>

InStorage(lx, r) == r.last <= Len(lx.chars) + 2

ReadFault == Throw("read outside the storage of chars")

\* what the call can do, r being what it does when every read succeeds
LiteralOutcomes(lx, r) ==
    IF \A i \in 1..Len(EqualRanges(lx)) : InStorage(lx, EqualRanges(lx)[i])
    THEN {r}
    ELSE {r, ReadFault}

TypeLetter(c) ==
    /\ tok = Unset
    /\ typed < MaxLitLen
    /\ text' = Append(text, c)
    /\ typed' = typed + 1
    /\ UNCHANGED <<v, indent, dumped, parsed, tok, redumped, res, nat>>

\* JsonLexer lexer(text); lexer.GetNextToken()
ScanLiteral ==
    /\ tok = Unset
    /\ text # <<>>
    /\ tok' \in LiteralOutcomes(SkipWhitespace(JsonLexer(text).lx), FirstToken(JsonLexer(text)))
    /\ res' = [op |-> "std::equal", ranges |-> EqualRanges(SkipWhitespace(JsonLexer(text).lx))]
    /\ UNCHANGED <<v, indent, dumped, text, typed, parsed, redumped, nat>>

NextLit ==
    \/ \E c \in LitChars : TypeLetter(c)
    \/ ScanLiteral

SpecLit == Init /\ [][NextLit]_vars

StartsWith(s, word) == Len(s) >= Len(word) /\ SubSeq(s, 1, Len(word)) = word

\* C23: a Boolean or Null token is returned only for the exact spelling of
\* true, false or null; any other text in t or f fails with "expected
\* boolean literal", any other text in n with "expected null literal"; and
\* no range compared reaches past the end of the text.
C23_LiteralExact ==
    (tok # Unset /\ res.op = "std::equal") =>
        /\ IF StartsWith(text, TrueWord) \/ StartsWith(text, FalseWord)
           THEN ~Threw(tok) /\ tok.tok.type = "Boolean"
                /\ tok.tok.data = StartsWith(text, TrueWord)
           ELSE IF StartsWith(text, NullWord)
           THEN ~Threw(tok) /\ tok.tok.type = "Null"
           ELSE IF Head(text) \in {"t", "f"} THEN tok.err = "expected boolean literal"
           ELSE IF Head(text) = "n" THEN tok.err = "expected null literal"
           ELSE Threw(tok)
        /\ \A i \in 1..Len(res.ranges) : res.ranges[i].last <= Len(text) + 1

\* the verdict of C23 alone, for the calls whose reads stay in the storage
LiteralVerdict ==
    (tok # Unset /\ res.op = "std::equal" /\ tok # ReadFault) =>
        /\ IF StartsWith(text, TrueWord) \/ StartsWith(text, FalseWord)
           THEN ~Threw(tok) /\ tok.tok.type = "Boolean"
           ELSE IF StartsWith(text, NullWord)
           THEN ~Threw(tok) /\ tok.tok.type = "Null"
           ELSE IF Head(text) \in {"t", "f"} THEN tok.err = "expected boolean literal"
           ELSE IF Head(text) = "n" THEN tok.err = "expected null literal"
           ELSE Threw(tok)


(***************************************************************************)
(* A string text typed character by character after its opening quote,    *)
(* and its first token.  Every text is valid UTF-8: the two-byte character *)
(* is typed whole.                                                         *)
(***************************************************************************)
MaxStrChars == 5

StrChars == {<<QUOTE>>, <<BACKSLASH>>, <<"u">>, <<"0">>, <<"a">>, <<LeadByte, ContByte>>}

StrSeeds == {<<QUOTE>>, <<QUOTE, BACKSLASH, "u">>}

InitEsc ==
    /\ v = JNull
    /\ indent = -1
    /\ dumped = NotDumped
    /\ text \in StrSeeds
    /\ typed = 0
    /\ parsed = Unset
    /\ tok = Unset
    /\ redumped = NotDumped
    /\ res = NoResult
    /\ nat = NoNative

TypeStrChar(c) ==
    /\ tok = Unset
    /\ typed < MaxStrChars
    /\ text' = text \o c
    /\ typed' = typed + 1
    /\ UNCHANGED <<v, indent, dumped, parsed, tok, redumped, res, nat>>

NextEsc ==
    \/ \E c \in StrChars : TypeStrChar(c)
    \/ Scan

SpecEsc == InitEsc /\ [][NextEsc]_vars

\* the characters (code points) of a valid UTF-8 text
RECURSIVE Utf8Chars(_)
Utf8Chars(s) ==
    IF s = <<>> THEN <<>>
    ELSE <<Utf8Next(s, 1).cp>> \o Utf8Chars(Drop(s, Utf8Next(s, 1).next))

\* how the characters cs of a string text end, read from cs[i] on: "closed"
\* by an unescaped quote, "end" of input before it or within an escape,
\* "invalid" for a \u whose next four characters are not all hex digits
RECURSIVE StringEnding(_, _)
StringEnding(cs, i) ==
    IF i > Len(cs) THEN "end"
    ELSE IF cs[i] = QUOTE THEN "closed"
    ELSE IF cs[i] # BACKSLASH THEN StringEnding(cs, i + 1)
    ELSE IF i + 1 > Len(cs) THEN "end"
    ELSE IF cs[i + 1] # "u" THEN StringEnding(cs, i + 2)
    ELSE IF Len(cs) - (i + 1) < 4 THEN "end"
    ELSE IF \E k \in 2..5 : ~IsHexDigit(cs[i + k]) THEN "invalid"
    ELSE StringEnding(cs, i + 6)

\* C24: a string text that ends before its closing quote, or within a \u
\* escape of fewer than four characters, fails with "unexpected end of
\* input"; a \u escape whose next four characters are not all hex digits
\* fails with "invalid unicode escape sequence"; no String token is
\* returned in either case.
C24_StringErrors ==
    tok # Unset =>
        /\ StringEnding(Utf8Chars(text), 2) = "end" => tok.err = "unexpected end of input"
        /\ StringEnding(Utf8Chars(text), 2) = "invalid"
               => tok.err = "invalid unicode escape sequence"

\* C24 for the texts of one-byte characters
StringErrorsAscii ==
    (tok # Unset /\ ~Contains(text, LeadByte)) => C24_StringErrors


\* C27: for a Value of any variant and any key, find(key) and end() return
\* iterators of the same kind, so that comparing them passes the assertion
\* of operator== and yields a result without throwing.
C27_FindEndSameKind ==
    res.op = "find" =>
        /\ res.it.var = End(res.before).var
        /\ \A ndebug \in BOOLEAN : ~Threw(IterEquals(res.it, End(res.before), ndebug))


\* C28: converting an Array to a std::array<T, N> never reads an element
\* index that is >= the Array's size; an Array of fewer than N elements
\* makes the conversion fail.
C28_ArrayNoOverrun ==
    (res.op = "from_json(std::array)" /\ res.before.type = "Array") =>
        /\ \A i \in res.reads : i < Len(res.before.data)
        /\ Len(res.before.data) < res.T.n =>
               Threw(res.out) /\ res.out.err # VectorOverrun


\* the entries of before are entries of after, keys and values
EntriesKept(before, after) ==
    \A k \in Keys(before.data) :
        k \in Keys(after.data) /\ Lookup(after.data, k) = Lookup(before.data, k)

\* C29: on an Object that lacks the key, mutable operator[](key) inserts
\* the entry key -> Null, GetSize growing by 1 and every other entry kept,
\* while GetAt(key), const operator[](key) and find(key) leave the Object
\* unchanged: the first two fail, find returns end().
C29_MissingKeyEffects ==
    (/\ res.op \in {"operator[](key)", "GetAt(key)", "const operator[](key)", "find"}
     /\ res.before.type = "Object"
     /\ res.key \notin Keys(res.before.data)) =>
        IF res.op = "operator[](key)"
        THEN /\ ~Threw(res.out)
             /\ v.type = "Object"
             /\ GetSize(v) = GetSize(res.before) + 1
             /\ res.key \in Keys(v.data)
             /\ Lookup(v.data, res.key) = JNull
             /\ EntriesKept(res.before, v)
        ELSE IF res.op = "find"
        THEN v = res.before /\ res.it = End(res.before)
        ELSE v = res.before /\ res.out = Throw(OutOfRange)

\* v["b"] on an Object that holds "a" alone
C29_Witness ==
    /\ res.op = "operator[](key)"
    /\ res.key = <<"b">>
    /\ res.before.type = "Object"
    /\ Keys(res.before.data) = {<<"a">>}
    /\ GetSize(v) = 2
    /\ Lookup(v.data, <<"b">>) = JNull

====
